---- MODULE Spec2Model ----
(***************************************************************************)
(* Model of the Amazon Review Summarizer popup (src/popup.js).             *)
(*                                                                         *)
(* Text that the program parses (stream chunks, frame lines, JSON          *)
(* payloads, content deltas) is a sequence of one-character strings, so    *)
(* that split, trim, substring, JSON.parse and the HTML parse of innerHTML *)
(* are computed character by character.  Text that the program only shows  *)
(* (labels, status messages) is an ordinary string.                        *)
(***************************************************************************)
EXTENDS Integers, Sequences, FiniteSets, TLC

(***************************************************************************)
(* Bounds of the model.                                                    *)
(***************************************************************************)
\* Number of click events (user or scripted) delivered to the trigger button.
MaxClicks == 2
\* Number of data chunks one response stream delivers before it ends.
MaxReads == 2

(***************************************************************************)
(* JavaScript string primitives used by the stream loop.                   *)
(***************************************************************************)
\* White space and line terminators removed by String.prototype.trim.  VT is
\* the character U+000B, written as itself; a character outside ASCII is
\* written as the name of its code point.
VT == ""
WhiteSpace ==
    {" ", "\t", "\n", "\r", "\f", VT,
     "U+00A0", "U+1680", "U+2000", "U+2001", "U+2002", "U+2003", "U+2004",
     "U+2005", "U+2006", "U+2007", "U+2008", "U+2009", "U+200A", "U+2028",
     "U+2029", "U+202F", "U+205F", "U+3000", "U+FEFF"}

RECURSIVE TrimStart(_)
TrimStart(s) ==
    IF s # <<>> /\ Head(s) \in WhiteSpace THEN TrimStart(Tail(s)) ELSE s

RECURSIVE TrimEnd(_)
TrimEnd(s) ==
    IF s # <<>> /\ s[Len(s)] \in WhiteSpace
    THEN TrimEnd(SubSeq(s, 1, Len(s) - 1))
    ELSE s

\* String.prototype.trim
Trim(s) == TrimEnd(TrimStart(s))

\* String.prototype.startsWith
StartsWith(s, p) == Len(s) >= Len(p) /\ SubSeq(s, 1, Len(p)) = p

\* String.prototype.substring(n): the text from 0-based index n on.
Substring(s, n) == IF n >= Len(s) THEN <<>> ELSE SubSeq(s, n + 1, Len(s))

\* String.prototype.split('\n'): the pieces between the newlines, empty
\* pieces included.
NewlinesOf(s) == {i \in 1..Len(s) : s[i] = "\n"}

SplitLines(s) ==
    LET nl == NewlinesOf(s)
        n == Cardinality(nl)
        Pos(k) == IF k = 0 THEN 0
                  ELSE IF k = n + 1 THEN Len(s) + 1
                  ELSE CHOOSE p \in nl : Cardinality({q \in nl : q <= p}) = k
    IN  [k \in 1..(n + 1) |-> SubSeq(s, Pos(k - 1) + 1, Pos(k) - 1)]

\* Array.prototype.join for an array of strings.
RECURSIVE Join(_, _)
Join(parts, sep) ==
    IF parts = <<>> THEN <<>>
    ELSE IF Len(parts) = 1 THEN parts[1]
    ELSE parts[1] \o sep \o Join(Tail(parts), sep)

\* Concatenation of a sequence of strings.
Concat(parts) == Join(parts, <<>>)

(***************************************************************************)
(* JSON.parse, for the JSON that can be written with the characters of the *)
(* modelled streams: objects, arrays, strings without escape sequences,    *)
(* and the literals true, false and null (the streams hold no digit and no *)
(* backslash).  A value is a tagged record.                                *)
(***************************************************************************)
Undefined == [t |-> "undefined"]
JsNull == [t |-> "null"]
JsBool(b) == [t |-> "bool", b |-> b]
JsStr(s) == [t |-> "str", s |-> s]
JsArr(items) == [t |-> "arr", items |-> items]
JsObj(kv) == [t |-> "obj", kv |-> kv]

ParseFail == [ok |-> FALSE, v |-> Undefined, i |-> 0]
ParseOk(v, i) == [ok |-> TRUE, v |-> v, i |-> i]

\* White space JSON allows between tokens.
JsonWs == {" ", "\t", "\n", "\r"}

RECURSIVE SkipWs(_, _)
SkipWs(s, i) ==
    IF i <= Len(s) /\ s[i] \in JsonWs THEN SkipWs(s, i + 1) ELSE i

\* Index of the quote that closes the string whose first character is at i;
\* 0 when the string is not closed or holds a character JSON forbids there.
RECURSIVE StringEnd(_, _)
StringEnd(s, i) ==
    IF i > Len(s) THEN 0
    ELSE IF s[i] = "\"" THEN i
    ELSE IF s[i] \in {"\\", "\t", "\n", "\r"} THEN 0
    ELSE StringEnd(s, i + 1)

ParseString(s, i) ==
    LET e == StringEnd(s, i)
    IN  IF e = 0 THEN ParseFail ELSE ParseOk(JsStr(SubSeq(s, i, e - 1)), e + 1)

ParseLiteral(s, i, word, v) ==
    IF i + Len(word) - 1 <= Len(s) /\ SubSeq(s, i, i + Len(word) - 1) = word
    THEN ParseOk(v, i + Len(word))
    ELSE ParseFail

RECURSIVE ParseValue(_, _)
RECURSIVE ParseMembers(_, _, _)
RECURSIVE ParseElements(_, _, _)

\* The members of an object after '{' or ',': "key" : value, then ',' or '}'.
ParseMembers(s, i, acc) ==
    LET k == SkipWs(s, i)
    IN  IF k > Len(s) \/ s[k] # "\"" THEN ParseFail
        ELSE LET key == ParseString(s, k + 1)
             IN  IF ~key.ok THEN ParseFail
                 ELSE LET c == SkipWs(s, key.i)
                      IN  IF c > Len(s) \/ s[c] # ":" THEN ParseFail
                          ELSE LET val == ParseValue(s, c + 1)
                               IN  IF ~val.ok THEN ParseFail
                                   ELSE LET d == SkipWs(s, val.i)
                                            kv == Append(acc, <<key.v.s, val.v>>)
                                        IN  IF d > Len(s) THEN ParseFail
                                            ELSE IF s[d] = "}" THEN ParseOk(JsObj(kv), d + 1)
                                            ELSE IF s[d] = "," THEN ParseMembers(s, d + 1, kv)
                                            ELSE ParseFail

\* The elements of an array after '[' or ',': value, then ',' or ']'.
ParseElements(s, i, acc) ==
    LET val == ParseValue(s, i)
    IN  IF ~val.ok THEN ParseFail
        ELSE LET d == SkipWs(s, val.i)
                 items == Append(acc, val.v)
             IN  IF d > Len(s) THEN ParseFail
                 ELSE IF s[d] = "]" THEN ParseOk(JsArr(items), d + 1)
                 ELSE IF s[d] = "," THEN ParseElements(s, d + 1, items)
                 ELSE ParseFail

ParseValue(s, i) ==
    LET j == SkipWs(s, i)
    IN  IF j > Len(s) THEN ParseFail
        ELSE IF s[j] = "{"
             THEN LET k == SkipWs(s, j + 1)
                  IN  IF k <= Len(s) /\ s[k] = "}" THEN ParseOk(JsObj(<<>>), k + 1)
                      ELSE ParseMembers(s, j + 1, <<>>)
        ELSE IF s[j] = "["
             THEN LET k == SkipWs(s, j + 1)
                  IN  IF k <= Len(s) /\ s[k] = "]" THEN ParseOk(JsArr(<<>>), k + 1)
                      ELSE ParseElements(s, j + 1, <<>>)
        ELSE IF s[j] = "\"" THEN ParseString(s, j + 1)
        ELSE IF s[j] = "t" THEN ParseLiteral(s, j, <<"t", "r", "u", "e">>, JsBool(TRUE))
        ELSE IF s[j] = "f" THEN ParseLiteral(s, j, <<"f", "a", "l", "s", "e">>, JsBool(FALSE))
        ELSE IF s[j] = "n" THEN ParseLiteral(s, j, <<"n", "u", "l", "l">>, JsNull)
        ELSE ParseFail

\* JSON.parse(text): ok is FALSE where JSON.parse throws a SyntaxError.
JSONParse(s) ==
    LET r == ParseValue(s, 1)
    IN  IF r.ok /\ SkipWs(s, r.i) > Len(s) THEN r ELSE ParseFail

\* value.name for a property name that is not an own property of arrays,
\* strings or booleans: the last member of that name of an object.
RECURSIVE LookUp(_, _, _)
LookUp(kv, name, i) ==
    IF i = 0 THEN Undefined
    ELSE IF kv[i][1] = name THEN kv[i][2]
    ELSE LookUp(kv, name, i - 1)

GetProp(v, name) == IF v.t = "obj" THEN LookUp(v.kv, name, Len(v.kv)) ELSE Undefined

\* value[0]
GetIndex0(v) ==
    IF v.t = "arr" THEN (IF v.items = <<>> THEN Undefined ELSE v.items[1])
    ELSE IF v.t = "str" THEN (IF v.s = <<>> THEN Undefined ELSE JsStr(<<v.s[1]>>))
    ELSE GetProp(v, <<"0">>)

IsNullish(v) == v.t \in {"undefined", "null"}

\* parsed.choices?.[0]?.delta?.content (popup.js:192) for a parsed value
\* that is not null.
ContentOf(parsed) ==
    LET choices == GetProp(parsed, <<"c", "h", "o", "i", "c", "e", "s">>)
    IN  IF IsNullish(choices) THEN Undefined
        ELSE LET first == GetIndex0(choices)
             IN  IF IsNullish(first) THEN Undefined
                 ELSE LET delta == GetProp(first, <<"d", "e", "l", "t", "a">>)
                      IN  IF IsNullish(delta) THEN Undefined
                          ELSE GetProp(delta, <<"c", "o", "n", "t", "e", "n", "t">>)

\* The truth value of a value in a condition.
Truthy(v) ==
    IF v.t \in {"undefined", "null"} THEN FALSE
    ELSE IF v.t = "bool" THEN v.b
    ELSE IF v.t = "str" THEN v.s # <<>>
    ELSE TRUE

\* Whether a value that JSON.parse made can be converted to a string.  An
\* object with an own member toString has no callable toString, and the
\* valueOf it inherits returns the object: the conversion throws a
\* TypeError.  An array is converted by join, which converts every item
\* that is neither null nor undefined.
RECURSIVE Converts(_)
Converts(v) ==
    IF v.t = "obj"
    THEN \A k \in 1..Len(v.kv) : v.kv[k][1] # <<"t", "o", "S", "t", "r", "i", "n", "g">>
    ELSE IF v.t = "arr"
    THEN \A k \in 1..Len(v.items) : IsNullish(v.items[k]) \/ Converts(v.items[k])
    ELSE TRUE

\* What stands for the string of a value that has none.
NoStringForm == <<"<TypeError>">>

\* The message of the TypeError that the conversion throws.
ConversionErrorMsg == <<"Cannot convert object to primitive value">>

\* The string a value for which Converts holds is converted to in a template
\* literal (popup.js:158,172) and by join; an assignment to innerHTML
\* (popup.js:116) converts the values that reach it, which are truthy
\* (popup.js:193), in the same way.
RECURSIVE ToStr(_)
RECURSIVE JoinItems(_)
JoinItems(items) ==
    IF items = <<>> THEN <<>>
    ELSE (IF IsNullish(items[1]) THEN <<>> ELSE ToStr(items[1]))
         \o (IF Len(items) = 1 THEN <<>> ELSE <<",">> \o JoinItems(Tail(items)))

ToStr(v) ==
    IF v.t = "str" THEN v.s
    ELSE IF v.t = "bool"
         THEN (IF v.b THEN <<"t", "r", "u", "e">> ELSE <<"f", "a", "l", "s", "e">>)
    ELSE IF v.t = "arr" THEN JoinItems(v.items)
    ELSE IF v.t = "obj"
         THEN <<"[", "o", "b", "j", "e", "c", "t", " ", "O", "b", "j", "e", "c", "t", "]">>
    ELSE IF v.t = "null" THEN <<"n", "u", "l", "l">>
    ELSE <<"u", "n", "d", "e", "f", "i", "n", "e", "d">>


(***************************************************************************)
(* The text content of the nodes that the HTML fragment parser makes of a  *)
(* string assigned to the innerHTML of a div (popup.js:115-119).           *)
(*                                                                         *)
(* The input stream is preprocessed: CR LF and a lone CR become LF.  A '<' *)
(* that a letter follows opens a start tag that runs to the next '>', or   *)
(* to the end of the string when there is none, and yields no text; "</"   *)
(* opens an end tag or a bogus comment; any other '<' is text.  The tag    *)
(* name is the run of characters up to white space, '/' or '>', in lower   *)
(* case.  After the start tag of a raw-text element the text runs to the   *)
(* element's own end tag, and to the end of the string after <plaintext>;  *)
(* a newline that directly follows the start tag of pre, listing or        *)
(* textarea is dropped.                                                    *)
(*                                                                         *)
(* Covered: strings without '&', quotes, '!', '?' and U+0000, and without  *)
(* the tags table, template, select, svg and math, whose content the tree  *)
(* builder moves, keeps out of the children or parses by other rules.      *)
(***************************************************************************)
AsciiLetters ==
    {"a", "b", "c", "d", "e", "f", "g", "h", "i", "j", "k", "l", "m",
     "n", "o", "p", "q", "r", "s", "t", "u", "v", "w", "x", "y", "z",
     "A", "B", "C", "D", "E", "F", "G", "H", "I", "J", "K", "L", "M",
     "N", "O", "P", "Q", "R", "S", "T", "U", "V", "W", "X", "Y", "Z"}

\* A tag name as the tokenizer keeps it: in lower case.
LowerName(s) ==
    LET lower == <<"a", "b", "c", "d", "e", "f", "g", "h", "i", "j", "k", "l", "m",
                   "n", "o", "p", "q", "r", "s", "t", "u", "v", "w", "x", "y", "z">>
        upper == <<"A", "B", "C", "D", "E", "F", "G", "H", "I", "J", "K", "L", "M",
                   "N", "O", "P", "Q", "R", "S", "T", "U", "V", "W", "X", "Y", "Z">>
        LowerChar(c) ==
            IF \E k \in 1..26 : upper[k] = c
            THEN lower[CHOOSE k \in 1..26 : upper[k] = c]
            ELSE c
    IN  [k \in 1..Len(s) |-> LowerChar(s[k])]

\* The preprocessing of the input stream.
RECURSIVE NormalizeNewlines(_)
NormalizeNewlines(s) ==
    IF s = <<>> THEN <<>>
    ELSE IF s[1] = "\r"
         THEN <<"\n">> \o NormalizeNewlines(IF Len(s) > 1 /\ s[2] = "\n"
                                           THEN SubSeq(s, 3, Len(s))
                                           ELSE Tail(s))
    ELSE <<s[1]>> \o NormalizeNewlines(Tail(s))

\* The characters that end a tag name.
TagNameEnds == {"\t", "\n", "\f", " ", "/", ">"}

\* Index of the first '>' at or after i; 0 when there is none.
RECURSIVE TagEnd(_, _)
TagEnd(s, i) ==
    IF i > Len(s) THEN 0
    ELSE IF s[i] = ">" THEN i
    ELSE TagEnd(s, i + 1)

\* Index after the tag name that starts at i.
RECURSIVE NameEnd(_, _)
NameEnd(s, i) ==
    IF i > Len(s) \/ s[i] \in TagNameEnds THEN i ELSE NameEnd(s, i + 1)

\* The elements whose content the tokenizer reads as text up to their end
\* tag, and the elements after whose start tag a newline is dropped.
RawTextElements ==
    {<<"s", "c", "r", "i", "p", "t">>,
     <<"s", "t", "y", "l", "e">>,
     <<"x", "m", "p">>,
     <<"i", "f", "r", "a", "m", "e">>,
     <<"n", "o", "e", "m", "b", "e", "d">>,
     <<"n", "o", "f", "r", "a", "m", "e", "s">>,
     <<"n", "o", "s", "c", "r", "i", "p", "t">>,
     <<"t", "i", "t", "l", "e">>,
     <<"t", "e", "x", "t", "a", "r", "e", "a">>}
NewlineDroppers ==
    {<<"p", "r", "e">>, <<"l", "i", "s", "t", "i", "n", "g">>,
     <<"t", "e", "x", "t", "a", "r", "e", "a">>}

\* Index of the '<' of the first end tag of the element name at or after i:
\* "</", the name in any case, and a character that ends a tag name; 0 when
\* there is none.
RECURSIVE RawTextEnd(_, _, _)
RawTextEnd(s, i, name) ==
    LET n == Len(name)
    IN  IF i + n + 2 > Len(s) THEN 0
        ELSE IF /\ s[i] = "<"
                /\ s[i + 1] = "/"
                /\ LowerName(SubSeq(s, i + 2, i + n + 1)) = name
                /\ s[i + n + 2] \in TagNameEnds
             THEN i
        ELSE RawTextEnd(s, i + 1, name)

RECURSIVE HtmlTextFrom(_, _)
\* What follows the start tag of the element name, which ended at e - 1.
AfterStartTag(s, e, name) ==
    LET from == IF name \in NewlineDroppers /\ e <= Len(s) /\ s[e] = "\n"
                THEN e + 1 ELSE e
    IN  IF name = <<"p", "l", "a", "i", "n", "t", "e", "x", "t">>
        THEN SubSeq(s, from, Len(s))
        ELSE IF name \in RawTextElements
        THEN LET j == RawTextEnd(s, from, name)
             IN  IF j = 0 THEN SubSeq(s, from, Len(s))
                 ELSE SubSeq(s, from, j - 1)
                      \o (LET g == TagEnd(s, j + Len(name) + 2)
                          IN  IF g = 0 THEN <<>> ELSE HtmlTextFrom(s, g + 1))
        ELSE HtmlTextFrom(s, from)

HtmlTextFrom(s, i) ==
    IF i > Len(s) THEN <<>>
    ELSE IF s[i] # "<" THEN <<s[i]>> \o HtmlTextFrom(s, i + 1)
    ELSE IF i + 1 <= Len(s) /\ s[i + 1] \in AsciiLetters
         THEN LET e == TagEnd(s, i + 2)
              IN  IF e = 0 THEN <<>> ELSE AfterStartTag(s, e + 1,
                                       LowerName(SubSeq(s, i + 1, NameEnd(s, i + 1) - 1)))
    ELSE IF i + 1 <= Len(s) /\ s[i + 1] = "/"
         THEN IF i + 2 > Len(s) THEN <<"<", "/">>
              ELSE LET e == TagEnd(s, i + 2)
                   IN  IF e = 0 THEN <<>> ELSE HtmlTextFrom(s, e + 1)
    ELSE <<"<">> \o HtmlTextFrom(s, i + 1)

HtmlText(s) == HtmlTextFrom(NormalizeNewlines(s), 1)

(***************************************************************************)
(* TextDecoder.decode(value, {stream: true}) (popup.js:180,185).  A byte   *)
(* is an ASCII character or one of the two bytes of the UTF-8 encoding of  *)
(* U+00E9; a lead byte at the end of a chunk is held back until the next   *)
(* chunk, and a broken sequence decodes to U+FFFD.                         *)
(***************************************************************************)
LeadByte == "C3"
ContByte == "A9"
CharFFFD == "U+FFFD"

\* The decoder's state and output after one more byte.
DecodeByte(st, b) ==
    IF st.pending
    THEN IF b = ContByte THEN [pending |-> FALSE, out |-> Append(st.out, "U+00E9")]
         ELSE IF b = LeadByte THEN [pending |-> TRUE, out |-> Append(st.out, CharFFFD)]
         ELSE [pending |-> FALSE, out |-> st.out \o <<CharFFFD, b>>]
    ELSE IF b = LeadByte THEN [pending |-> TRUE, out |-> st.out]
    ELSE IF b = ContByte THEN [pending |-> FALSE, out |-> Append(st.out, CharFFFD)]
    ELSE [pending |-> FALSE, out |-> Append(st.out, b)]

\* Whether the decoder holds a lead byte when it comes to bytes[i]: every
\* lead byte is held, every other byte releases what is held.
PendingBefore(pending, bytes, i) == IF i = 1 THEN pending ELSE bytes[i - 1] = LeadByte

\* The characters that bytes[lo..hi] decode to.
RECURSIVE DecodeRange(_, _, _, _)
DecodeRange(pending, bytes, lo, hi) ==
    IF lo > hi THEN <<>>
    ELSE IF lo = hi
    THEN DecodeByte([pending |-> PendingBefore(pending, bytes, lo), out |-> <<>>],
                    bytes[lo]).out
    ELSE LET mid == (lo + hi) \div 2
         IN  DecodeRange(pending, bytes, lo, mid) \o DecodeRange(pending, bytes, mid + 1, hi)

\* decoder.decode(bytes, {stream: true}) for a decoder that holds a lead
\* byte iff pending: the decoded text and the decoder's new state.
Decode(pending, bytes) ==
    [pending |-> PendingBefore(pending, bytes, Len(bytes) + 1),
     out |-> DecodeRange(pending, bytes, 1, Len(bytes))]

(***************************************************************************)
(* The popup's document: the content area (contentDiv) and the streamed    *)
(* summary area (#summaryOutput).                                          *)
(*   contentDiv     [kind, value, kids]: what was last assigned to it      *)
(*                  ("html" by innerHTML, "text" by textContent) and the   *)
(*                  elements appended to it since, in order                *)
(*   summaryOutput  [home, display, text]: where the element with id       *)
(*                  summaryOutput is ("none": no such element in the       *)
(*                  document, "content": a child of contentDiv, "body":    *)
(*                  elsewhere in the page), its style.display and its      *)
(*                  textContent                                            *)
(* A message is a tuple of string segments.                                *)
(***************************************************************************)
Null == [null |-> TRUE, v |-> <<>>]
Arg(v) == [null |-> FALSE, v |-> v]

NoSummaryOutput == [home |-> "none", display |-> "none", text |-> <<>>]

\* An assignment that puts the new content in front of the old children.
ReplaceChildrenKeepsKids(dom, kind, value) ==
    [dom EXCEPT !.contentDiv = [kind |-> kind, value |-> value, kids |-> @.kids]]

\* contentDiv.textContent = ... and contentDiv.innerHTML = ... replace every
\* child of contentDiv: a summary area inside it leaves the document.
ReplaceChildren(dom, kind, value) ==
    [dom EXCEPT !.contentDiv = [kind |-> kind, value |-> value, kids |-> <<>>],
                !.summaryOutput = IF dom.summaryOutput.home = "content"
                                  THEN NoSummaryOutput
                                  ELSE dom.summaryOutput]

\* updatePopupContent(htmlContent, textContent), popup.js:30-39.
UpdatePopupContent(dom, htmlContent, textContent) ==
    IF ~htmlContent.null THEN ReplaceChildren(dom, "html", htmlContent.v)
    ELSE IF ~textContent.null THEN ReplaceChildren(dom, "text", textContent.v)
    ELSE dom

\* popup.js:98-107: the summary area, created hidden inside contentDiv when
\* the document has no element with that id.
EnsureSummaryOutput(dom) ==
    IF dom.summaryOutput.home # "none" THEN dom
    ELSE [dom EXCEPT !.summaryOutput = [home |-> "content", display |-> "none",
                                        text |-> <<>>],
                     !.contentDiv.kids = Append(@, "summaryOutput")]

\* A renderer that shows the area on the first chunk and keeps its content.
ClearIfFirstShowsOnly(so, isFirstChunk) ==
    IF isFirstChunk THEN [so EXCEPT !.display = "block"] ELSE so

\* popup.js:109-112
ClearIfFirst(so, isFirstChunk) ==
    IF isFirstChunk THEN [so EXCEPT !.text = <<>>, !.display = "block"] ELSE so


\* popup.js:114-119: the chunk is parsed as HTML and its nodes are appended.
AppendParsed(so, chunk) == [so EXCEPT !.text = @ \o HtmlText(chunk)]

\* displaySummaryStream(chunk, isFirstChunk), popup.js:97-120.
DisplaySummaryStream(dom, chunk, isFirstChunk) ==
    LET d == EnsureSummaryOutput(dom)
    IN  [d EXCEPT !.summaryOutput = AppendParsed(ClearIfFirst(@, isFirstChunk), chunk)]

(***************************************************************************)
(* The stream loop's handling of one decoded chunk (popup.js:185-200).     *)
(* st = [dom, isFirst, calls, doneSeen, chunkNo]; calls logs every call of *)
(* displaySummaryStream of the session, doneSeen records that a [DONE]     *)
(* payload has been met.                                                   *)
(***************************************************************************)
DataMarker == <<"d", "a", "t", "a", ":">>
DoneSentinel == <<"[", "D", "O", "N", "E", "]">>
RenderCall(src, chunk, isFirst, st) ==
    [src |-> src, text |-> chunk, isFirst |-> isFirst,
     chunkNo |-> st.chunkNo, afterDone |-> st.doneSeen]

\* popup.js:186: the filter on the lines of a chunk.
KeepLine(line) == StartsWith(Trim(line), DataMarker)

\* popup.js:188
PayloadOf(line) == Trim(Substring(line, 5))


\* popup.js:193-196.  For a content that has no string the call of
\* displaySummaryStream runs up to the assignment to innerHTML
\* (popup.js:98-116), which throws: the area is there, cleared and shown on
\* a first call, nothing is appended and isFirst keeps its value.
RenderContent(st, content) ==
    IF ~Truthy(content) THEN st
    ELSE IF ~Converts(content)
    THEN [st EXCEPT !.dom = [EnsureSummaryOutput(@) EXCEPT
                                !.summaryOutput = ClearIfFirst(@, st.isFirst)],
                    !.calls = Append(@, RenderCall("delta", NoStringForm, st.isFirst, st))]
    ELSE [st EXCEPT !.dom = DisplaySummaryStream(@, ToStr(content), st.isFirst),
                    !.calls = Append(@, RenderCall("delta", ToStr(content), st.isFirst, st)),
                    !.isFirst = FALSE]

\* popup.js:197: what the inner catch block logs.
ParseError(jsonStr, name) == [jsonStr |-> jsonStr, name |-> name]

\* popup.js:190-199: a payload that JSON.parse rejects (SyntaxError), or
\* that parses to null (reading .choices of null is a TypeError), is caught
\* by the inner catch block, logged and skipped; so is the TypeError that
\* displaySummaryStream throws for a content that has no string.
ProcessFrame(st, jsonStr) ==
    LET p == JSONParse(jsonStr)
    IN  IF ~p.ok
        THEN [st EXCEPT !.errors = Append(@, ParseError(jsonStr, "SyntaxError"))]
        ELSE IF p.v.t = "null"
        THEN [st EXCEPT !.errors = Append(@, ParseError(jsonStr, "TypeError"))]
        ELSE LET content == ContentOf(p.v)
                 after == RenderContent(st, content)
             IN  IF Truthy(content) /\ ~Converts(content)
                 THEN [after EXCEPT !.errors = Append(@, ParseError(jsonStr, "TypeError"))]
                 ELSE after

\* A loop that a frame with invalid JSON ends.
RECURSIVE ForLinesStopAtBadJson(_, _, _)
ForLinesStopAtBadJson(lines, i, st) ==
    IF i > Len(lines) THEN st
    ELSE LET jsonStr == PayloadOf(lines[i])
         IN  IF jsonStr = DoneSentinel THEN [st EXCEPT !.doneSeen = TRUE]
             ELSE IF ~JSONParse(jsonStr).ok THEN st
             ELSE ForLinesStopAtBadJson(lines, i + 1, ProcessFrame(st, jsonStr))

\* popup.js:187-200: the for loop; [DONE] breaks out of it.
RECURSIVE ForLines(_, _, _)
ForLines(lines, i, st) ==
    IF i > Len(lines) THEN st
    ELSE LET jsonStr == PayloadOf(lines[i])
         IN  IF jsonStr = DoneSentinel THEN [st EXCEPT !.doneSeen = TRUE]
             ELSE ForLines(lines, i + 1, ProcessFrame(st, jsonStr))

\* popup.js:186-200 for the text of one chunk.
ProcessChunk(st, text) == ForLines(SelectSeq(SplitLines(text), KeepLine), 1, st)


(***************************************************************************)
(* The inputs of the model: the frames and chunks a response stream can    *)
(* deliver, the stored credential, the review sets, the responses.         *)
(***************************************************************************)
NL == <<"\n">>
SP == <<" ">>

\* {"choices":[{"delta":{"content":"<c>"}}]}
ContentJson(c) ==
    <<"{", "\"", "c", "h", "o", "i", "c", "e", "s", "\"", ":", "[", "{",
      "\"", "d", "e", "l", "t", "a", "\"", ":", "{",
      "\"", "c", "o", "n", "t", "e", "n", "t", "\"", ":", "\"">>
    \o c \o <<"\"", "}", "}", "]", "}">>

\* {"choices":[{"delta":{}}]}: a frame without content.
NoContentJson ==
    <<"{", "\"", "c", "h", "o", "i", "c", "e", "s", "\"", ":", "[", "{",
      "\"", "d", "e", "l", "t", "a", "\"", ":", "{", "}", "}", "]", "}">>

Frame(payload) == DataMarker \o SP \o payload

FrameA == Frame(ContentJson(<<"A">>))
FrameB == Frame(ContentJson(<<"B">>))
FrameDone == Frame(DoneSentinel)
FrameBad == Frame(<<"{", "b">>)
FrameNoContent == Frame(NoContentJson)
FrameEmpty == Frame(ContentJson(<<>>))
FrameNull == Frame(<<"n", "u", "l", "l">>)
FrameMarkup == Frame(ContentJson(<<"<", "B", ">", "A", "<">>))
\* {"choices":[{"delta":{"content":{"toString":true}}}]}: a content that has
\* no string.
FrameToString ==
    Frame(<<"{", "\"", "c", "h", "o", "i", "c", "e", "s", "\"", ":", "[", "{",
            "\"", "d", "e", "l", "t", "a", "\"", ":", "{",
            "\"", "c", "o", "n", "t", "e", "n", "t", "\"", ":", "{",
            "\"", "t", "o", "S", "t", "r", "i", "n", "g", "\"", ":",
            "t", "r", "u", "e", "}", "}", "}", "]", "}">>)
FrameE9 == Frame(ContentJson(<<LeadByte, ContByte>>))

\* Where the cut frames are cut: inside the JSON payload, and between the
\* two bytes of U+00E9.
CutAt == 20
CutE9 == Len(FrameE9) - 6

\* The chunks reader.read() can deliver (popup.js:182): whole frames, a
\* frame cut inside its payload, a frame cut between the two bytes of
\* U+00E9, frames without content, a null frame, an indented frame, a frame
\* with a content that has no string, a frame with markup.
ChunkSet ==
    { FrameA \o NL,
      FrameB \o NL \o FrameBad \o NL \o FrameA \o NL,
      FrameDone \o NL \o FrameB \o NL,
      SubSeq(FrameB, 1, CutAt),
      SubSeq(FrameB, CutAt + 1, Len(FrameB)) \o NL,
      SubSeq(FrameE9, CutE9 + 1, Len(FrameE9)) \o NL,
      FrameNoContent \o NL \o FrameEmpty \o NL \o FrameNull \o NL \o SP \o FrameA \o NL
          \o FrameB \o NL \o SubSeq(FrameE9, 1, CutE9),
      FrameToString \o NL \o FrameMarkup \o NL \o FrameE9 \o NL }

\* Values chrome.storage.local can hold under 'openaiApiKey': nothing, the
\* empty string, a key.
StoredKeys == {Undefined, JsStr(<<>>), JsStr(<<"s", "k">>)}

\* window.allReviews: unset, or an array of review texts.
NoReviewsSet == [set |-> FALSE, items |-> <<>>]
ReviewsArray(items) == [set |-> TRUE, items |-> items]
ReviewSets == {<< <<"o", "k">>, <<"b", "a", "d">> >>}

\* What fetch settles with: a rejection, or a response.
FetchOutcomes ==
    { [rejected |-> TRUE, ok |-> FALSE, status |-> "", statusText |-> "", body |-> FALSE],
      [rejected |-> FALSE, ok |-> FALSE, status |-> "401", statusText |-> "Unauthorized",
       body |-> TRUE],
      [rejected |-> FALSE, ok |-> TRUE, status |-> "200", statusText |-> "OK", body |-> FALSE],
      [rejected |-> FALSE, ok |-> TRUE, status |-> "200", statusText |-> "OK", body |-> TRUE] }

\* What response.json() of an error response settles with: a rejection (the
\* body is not JSON), or a value.
ServerMessage == <<"q", "u", "o", "t", "a">>
ErrorBodies ==
    { [rejected |-> TRUE, v |-> Undefined],
      [rejected |-> FALSE, v |-> JsObj(<<>>)],
      [rejected |-> FALSE, v |-> JsNull],
      [rejected |-> FALSE,
       v |-> JsObj(<< <<<<"e", "r", "r", "o", "r">>,
                        JsObj(<< <<<<"m", "e", "s", "s", "a", "g", "e">>,
                                   JsStr(ServerMessage)>> >>)>> >>)],
      [rejected |-> FALSE,
       v |-> JsObj(<< <<<<"e", "r", "r", "o", "r">>,
                        JsObj(<< <<<<"m", "e", "s", "s", "a", "g", "e">>,
                                   JsObj(<< <<<<"t", "o", "S", "t", "r", "i", "n", "g">>,
                                              JsBool(TRUE)>> >>)>> >>)>> >>)] }

(***************************************************************************)
(* Page classification (popup.js:4-5, 62-72).  A URL is a sequence of      *)
(* characters.                                                             *)
(***************************************************************************)
\* The literal text the two patterns start with.
SitePrefix ==
    <<"h", "t", "t", "p", "s", ":", "/", "/", "w", "w", "w", ".", "a", "m",
    "a", "z", "o", "n", ".", "c", "o", "m", "/">>
ReviewPath ==
    <<"p", "r", "o", "d", "u", "c", "t", "-", "r", "e", "v", "i", "e", "w",
    "s", "/">>
ReviewPrefix == SitePrefix \o ReviewPath
DpMarker ==
    <<"/", "d", "p", "/">>

\* [A-Z0-9]{10}
AsinLen == 10
AsinChars ==
    {"A", "B", "C", "D", "E", "F", "G", "H", "I", "J", "K", "L", "M", "N", "O",
     "P", "Q", "R", "S", "T", "U", "V", "W", "X", "Y", "Z",
     "0", "1", "2", "3", "4", "5", "6", "7", "8", "9"}

\* The characters '.' does not match.
LineTerminators == {"\n", "\r", "U+2028", "U+2029"}

\* url[p..p+AsinLen-1] exists and matches [A-Z0-9]{10}.
IsAsinAt(url, p) ==
    /\ p + AsinLen - 1 <= Len(url)
    /\ \A k \in p..(p + AsinLen - 1) : url[k] \in AsinChars

AsinAt(url, p) == SubSeq(url, p, p + AsinLen - 1)

NoMatch == [matched |-> FALSE, asin |-> <<>>]

\* url.match(REVIEW_PAGE_REGEX), popup.js:4,63: whether it matches, and
\* group 1.
ReviewMatch(url) ==
    IF StartsWith(url, ReviewPrefix) /\ IsAsinAt(url, Len(ReviewPrefix) + 1)
    THEN [matched |-> TRUE, asin |-> AsinAt(url, Len(ReviewPrefix) + 1)]
    ELSE NoMatch

\* The positions at which '/dp/' and ten identifier characters follow a run
\* of characters '.*' can match.
DpPositions(url) ==
    {p \in (Len(SitePrefix) + 1)..Len(url) :
        /\ p + Len(DpMarker) - 1 <= Len(url)
        /\ SubSeq(url, p, p + Len(DpMarker) - 1) = DpMarker
        /\ IsAsinAt(url, p + Len(DpMarker))
        /\ \A k \in (Len(SitePrefix) + 1)..(p - 1) : url[k] \notin LineTerminators}


\* '.*' is greedy: the match takes the last such position.
DpChosen(ps) == CHOOSE p \in ps : \A q \in ps : q <= p


\* A match whose group starts one character early.
ProductMatchCapturesSlash(url) ==
    IF StartsWith(url, SitePrefix) /\ DpPositions(url) # {}
    THEN [matched |-> TRUE,
          asin |-> AsinAt(url, DpChosen(DpPositions(url)) + Len(DpMarker) - 1)]
    ELSE NoMatch

\* url.match(PRODUCT_PAGE_REGEX), popup.js:5,67.
ProductMatch(url) ==
    IF StartsWith(url, SitePrefix) /\ DpPositions(url) # {}
    THEN [matched |-> TRUE,
          asin |-> AsinAt(url, DpChosen(DpPositions(url)) + Len(DpMarker))]
    ELSE NoMatch

PageInfo(type, asin) == [type |-> type, asin |-> asin]


\* A classifier that tries the product pattern first.
GetPageInfoProductFirst(url) ==
    IF ProductMatch(url).matched THEN PageInfo("product", JsStr(ProductMatch(url).asin))
    ELSE IF ReviewMatch(url).matched THEN PageInfo("review", JsStr(ReviewMatch(url).asin))
    ELSE PageInfo("other", JsNull)

\* A classifier that takes every URL of the site for a product page.
GetPageInfoSiteIsProduct(url) ==
    IF ReviewMatch(url).matched THEN PageInfo("review", JsStr(ReviewMatch(url).asin))
    ELSE IF StartsWith(url, SitePrefix) THEN PageInfo("product", JsStr(<<>>))
    ELSE PageInfo("other", JsNull)

\* getPageInfo, popup.js:62-72.
GetPageInfo(url) ==
    IF ReviewMatch(url).matched THEN PageInfo("review", JsStr(ReviewMatch(url).asin))
    ELSE IF ProductMatch(url).matched THEN PageInfo("product", JsStr(ProductMatch(url).asin))
    ELSE PageInfo("other", JsNull)

\* The URLs of the model: a head, a path, an identifier and a tail each.
UrlHeads ==
    { <<"h", "t", "t", "p", "s", ":", "/", "/", "w", "w", "w", ".", "a", "m", "a", "z", "o", "n", ".", "c", "o", "m", "/">>,
      <<"h", "t", "t", "p", ":", "/", "/", "w", "w", "w", ".", "a", "m", "a", "z", "o", "n", ".", "c", "o", "m", "/">>,
      <<"h", "t", "t", "p", "s", ":", "/", "/", "w", "w", "w", "X", "a", "m", "a", "z", "o", "n", ".", "c", "o", "m", "/">>,
      <<" ", "h", "t", "t", "p", "s", ":", "/", "/", "w", "w", "w", ".", "a", "m", "a", "z", "o", "n", ".", "c", "o", "m", "/">> }
UrlPaths ==
    { <<"p", "r", "o", "d", "u", "c", "t", "-", "r", "e", "v", "i", "e", "w", "s", "/">>,
      <<"x", "/", "d", "p", "/">>,
      <<"d", "p", "/">>,
      <<"x", "\n", "y", "/", "d", "p", "/">>,
      <<"/", "d", "p", "/">> }
UrlIds ==
    { <<"B", "0", "D", "L", "N", "Y", "J", "3", "Y", "R">>,
      <<"B", "0", "D", "L", "N", "Y", "J", "3", "Y">>,
      <<"B", "0", "D", "L", "N", "Y", "J", "3", "Y", "R", "Z">>,
      <<"b", "0", "d", "l", "n", "y", "j", "3", "y", "r">> }
UrlTails ==
    { <<>>,
      <<"/", "r", "e", "f", "?", "k", "=", "1">>,
      <<"/", "d", "p", "/", "B", "0", "0", "0", "0", "0", "0", "0", "0", "2">>,
      <<"/", "d", "p", "/", "s", "h", "o", "r", "t">> }
OtherSiteUrl ==
    <<"h", "t", "t", "p", "s", ":", "/", "/", "w", "w", "w", ".", "g", "o",
    "o", "g", "l", "e", ".", "c", "o", "m">>
UrlSet ==
    {h \o p \o i \o t : h \in UrlHeads, p \in UrlPaths, i \in UrlIds, t \in UrlTails}
    \cup {OtherSiteUrl, <<>>}

(***************************************************************************)
(* The review list of displayReviews (popup.js:251-262): the texts of its  *)
(* entries.                                                                *)
(***************************************************************************)
ShownMax == 5
PreviewLen == 100
Ellipsis == <<".", ".", ".">>

DigitChars == <<"0", "1", "2", "3", "4", "5", "6", "7", "8", "9">>

\* The decimal digits of a natural number.
RECURSIVE Digits(_)
Digits(n) ==
    IF n < 10 THEN <<DigitChars[n + 1]>>
    ELSE Digits(n \div 10) \o <<DigitChars[(n % 10) + 1]>>

Min(a, b) == IF a <= b THEN a ELSE b

\* popup.js:254
PreviewOf(review) ==
    SubSeq(review, 1, Min(PreviewLen, Len(review)))
    \o (IF Len(review) > PreviewLen THEN Ellipsis ELSE <<>>)

\* popup.js:259
MoreItem(n) == <<".", ".", ".", " ", "a", "n", "d", " ">> \o Digits(n) \o <<" ", "m", "o", "r", "e", ".">>


\* A list that shows every review.
ReviewListUncut(reviews) == [k \in 1..Len(reviews) |-> PreviewOf(reviews[k])]

\* popup.js:251-261
ReviewList(reviews) ==
    [k \in 1..Min(ShownMax, Len(reviews)) |-> PreviewOf(reviews[k])]
    \o (IF Len(reviews) > ShownMax THEN <<MoreItem(Len(reviews) - ShownMax)>> ELSE <<>>)

(***************************************************************************)
(* Messages and labels (popup.js).                                         *)
(***************************************************************************)
IdleLabel == "Summarize Reviews"
BusyLabel == "Summarizing..."
NoReviewsMsg == <<"Error: No reviews found to summarize.">>
MissingKeyMsg ==
    <<"Error: OpenAI API key not set. Please configure it via extension options.">>
StartedMsg == <<"Summarization started...">>
FetchFailedMsg == <<"Failed to fetch">>
ReadFailedMsg == <<"network error">>
NoBodyMsg == <<"Response body is null, cannot read stream.">>
NullBodyMsg == <<"Cannot read properties of null (reading 'error')">>
SummarizationErrorMsg(message) == <<"Error during summarization: ">> \o message
PromptPrefix == <<"Here are the product reviews to summarize:", "\n", "\n">>
ReviewSeparator == <<"\n", "-", "-", "-", "\n">>

(***************************************************************************)
(* State.                                                                  *)
(*   allReviews    window.allReviews                                       *)
(*   storage       the value stored under 'openaiApiKey'                   *)
(*   dom           [contentDiv, summaryOutput]                             *)
(*   summarizeBtn  [disabled, label] of the trigger button                 *)
(*   inflight      the activations of the click handler that have not      *)
(*                 returned, each suspended at an await (its pc)           *)
(*   ended         the activation that returned last, forgotten when the   *)
(*                 handler starts a new session                            *)
(*   nClicks, nKeyReads, nFetch                                            *)
(*                 clicks delivered, credential reads and completion       *)
(*                 requests issued so far                                  *)
(*   elements      whether the popup's page holds #content and #loading    *)
(*   loading       loadingDiv.style.display                                *)
(*   openPc        where the DOMContentLoaded handler (popup.js:406-447)   *)
(*                 is: "load" before it runs, "awaitTab", "awaitReviews",  *)
(*                 "done" when it and its callback are over                *)
(*   currentTab    the tab getCurrentTab returned                          *)
(*   pageInfo      what getPageInfo returned for its URL                   *)
(*   nExtract      'getReviews' messages sent so far                       *)
(*   extraction    what the callback of sendMessage got                    *)
(*   list          the texts of the entries of the review list             *)
(*   apiKeyUi      the key section: status text, form, pending save        *)
(*   contentScript the page the content script runs in, the messages its   *)
(*                 listener received and the responses it sent             *)
(*   build         which text of the popup script runs: "popup.js"         *)
(*                 (src/popup.js) or "part_001", the draft of it in        *)
(*                 src/unnamed/part_001; the two differ in the handler of  *)
(*                 the trigger button only, in the step after the stream   *)
(*                 loop and in the marker of the catch block               *)
(***************************************************************************)
VARIABLES allReviews, storage, dom, summarizeBtn, inflight, ended,
          nClicks, nKeyReads, nFetch,
          elements, loading, openPc, currentTab, pageInfo, nExtract, extraction,
          list, apiKeyUi, contentScript, build

vars == <<allReviews, storage, dom, summarizeBtn, inflight, ended,
          nClicks, nKeyReads, nFetch,
          elements, loading, openPc, currentTab, pageInfo, nExtract, extraction,
          list, apiKeyUi, contentScript, build>>

\* What the steps of a summarization session leave alone.
pageVars ==
    <<elements, openPc, currentTab, pageInfo, nExtract, extraction, list, apiKeyUi,
      contentScript, build>>

\* A toggleLoading that can show the indicator and never hides it.
ToggleLoadingNeverHides(display, show) ==
    IF ~elements.loading THEN display
    ELSE IF show THEN "block" ELSE display

\* toggleLoading(show), popup.js:17-21, for the display it finds.
ToggleLoading(display, show) ==
    IF ~elements.loading THEN display
    ELSE IF show THEN "block" ELSE "none"

NoRequest == [sent |-> FALSE, authorization |-> <<>>, stream |-> FALSE, user |-> <<>>]

\* An activation of the click handler.  isFirst and pending (the decoder's
\* held-back lead byte) exist from popup.js:180-181 on; apiKey from
\* popup.js:140 on.  chunks (the bytes read), texts (what they decoded to),
\* calls, doneSeen, parseErrors (what the inner catch block logged,
\* popup.js:197), keyLog (what getApiKey logged, popup.js:82), requests, keyRead, caught, cause and outcome record what
\* the activation did; clearedText, whether the summary area showed text when
\* the activation cleared it (popup.js:138).
NewActivation ==
    [pc |-> "start", clearedText |-> FALSE, apiKey |-> JsNull, isFirst |-> TRUE, pending |-> FALSE,
     reads |-> 0, chunks |-> <<>>, texts |-> <<>>, calls |-> <<>>, doneSeen |-> FALSE,
     parseErrors |-> <<>>, keyLog |-> <<>>,
     response |-> CHOOSE r \in FetchOutcomes : r.rejected,
     request |-> NoRequest, requests |-> 0, keyRead |-> "none",
     caught |-> <<>>, cause |-> "none", outcome |-> "none"]

NoActivation == [NewActivation EXCEPT !.pc = "never"]


(***************************************************************************)
(* The pieces of the click handler (popup.js:133-218).                     *)
(***************************************************************************)

\* A guard that forgets the length test.
HasReviewsAnyArray(reviews) == reviews.set

\* popup.js:135: window.allReviews && window.allReviews.length > 0
HasReviews(reviews) == reviews.set /\ Len(reviews.items) > 0


\* A handler that leaves the button as it is.
DisableButtonNever(btn) == btn

\* A finally block that leaves the button as it is.
RestoreButtonNever(btn) == btn

\* A handler that disables the button and keeps its label.
DisableButtonKeepsLabel(btn) == [btn EXCEPT !.disabled = TRUE]

\* A handler that changes the label and leaves the button enabled.
DisableButtonLabelOnly(btn) == [btn EXCEPT !.label = BusyLabel]

\* popup.js:136-137
DisableButton(btn) == [btn EXCEPT !.disabled = TRUE, !.label = BusyLabel]


\* A finally block that resets the label and leaves the button disabled.
RestoreButtonLabelOnly(btn) == [btn EXCEPT !.label = IdleLabel]

\* popup.js:210-211 (the finally block) and popup.js:144-145.
RestoreButton(btn) == [btn EXCEPT !.disabled = FALSE, !.label = IdleLabel]

\* getApiKey, popup.js:82: what console.log('Stored API key:', ...) writes
\* to the console when the store read resolves; a rejected read logs the
\* error instead (popup.js:85).
LoggedByGetApiKey(readOk, stored) == IF readOk THEN <<stored>> ELSE <<>>

\* A getApiKey that answers with a key kept in memory.
GetApiKeyFromMemory(readOk, stored) == JsStr(<<"s", "k">>)

\* getApiKey, popup.js:79-88: readOk is FALSE when the store read rejects.
GetApiKey(readOk, stored) ==
    IF ~readOk THEN JsNull
    ELSE IF Truthy(stored) THEN stored
    ELSE JsNull


\* A handler that does not test the key.
KeyMissingNeverChecked(apiKey) == FALSE

\* popup.js:141: !apiKey
KeyMissing(apiKey) == ~Truthy(apiKey)

\* A join that empties the array it reads.
AfterJoinEmptied(reviews) == [reviews EXCEPT !.items = <<>>]

\* popup.js:149: window.allReviews after join, which reads the array and
\* leaves it as it was.
AfterJoin(reviews) == reviews

\* A request built from what the review list shows: the first five
\* reviews, each cut to its preview.
BuildRequestFromList(apiKey, reviews) ==
    [sent |-> TRUE,
     authorization |-> <<"Bearer ">> \o ToStr(apiKey),
     stream |-> TRUE,
     user |-> PromptPrefix
              \o Join([k \in 1..Min(Len(reviews.items), ShownMax) |->
                          SubSeq(reviews.items[k], 1,
                                 Min(Len(reviews.items[k]), PreviewLen))],
                      ReviewSeparator)]

\* A request that asks for the whole completion at once.
BuildRequestNoStream(apiKey, reviews) ==
    [sent |-> TRUE,
     authorization |-> <<"Bearer ">> \o ToStr(apiKey),
     stream |-> FALSE,
     user |-> PromptPrefix \o Join(reviews.items, ReviewSeparator)]

\* popup.js:149,154-168: the completion request.
BuildRequest(apiKey, reviews) ==
    [sent |-> TRUE,
     authorization |-> <<"Bearer ">> \o ToStr(apiKey),
     stream |-> TRUE,
     user |-> PromptPrefix \o Join(reviews.items, ReviewSeparator)]

\* part_001:175-176: after the loop the draft logs and appends an end
\* marker to the summary, never as a first chunk.
EndOfSummary(d, a) ==
    LET marker == <<"\n\n--- END OF SUMMARY ---">>
    IN  [dom |-> DisplaySummaryStream(d, marker, FALSE),
         calls |-> Append(a.calls,
                          RenderCall("end", marker, FALSE,
                                     [chunkNo |-> a.reads, doneSeen |-> a.doneSeen]))]

\* popup.js:202-203: after the loop the handler only logs; the call that
\* appends the end marker is commented out there, and made in the draft.
AfterStream(d, a) ==
    IF build = "part_001" THEN EndOfSummary(d, a)
    ELSE [dom |-> d, calls |-> a.calls]

\* A handler that starts reading whatever the response holds.
NoBodyNeverChecked(response) == FALSE

\* popup.js:175: !response.body
NoBody(response) == ~response.body

\* popup.js:172: what the template literal puts after " - "; for a message
\* that has no string, the message of the TypeError thrown instead.
ServerMessageOf(errorData) ==
    LET error == GetProp(errorData, <<"e", "r", "r", "o", "r">>)
        message == IF IsNullish(error) THEN Undefined
                   ELSE GetProp(error, <<"m", "e", "s", "s", "a", "g", "e">>)
    IN  IF ~Truthy(message) THEN <<"Unknown error">>
        ELSE IF Converts(message) THEN ToStr(message)
        ELSE ConversionErrorMsg

\* popup.js:172: the message of the error raised for a non-2xx response:
\* that of the Error the handler makes, or that of the TypeError raised
\* while the template literal is evaluated.
ApiErrorMsg(response, errorData) ==
    LET error == GetProp(errorData, <<"e", "r", "r", "o", "r">>)
        message == IF IsNullish(error) THEN Undefined
                   ELSE GetProp(error, <<"m", "e", "s", "s", "a", "g", "e">>)
    IN  IF Truthy(message) /\ ~Converts(message) THEN ConversionErrorMsg
        ELSE <<"OpenAI API Error: ", response.status, " ", response.statusText, " - ">>
             \o ServerMessageOf(errorData)

\* popup.js:207 writes the marker with escaped backslashes, so the text
\* holds the two characters '\' 'n' where the draft (part_001:180) holds a
\* line feed.
ErrorDelta(message) ==
    IF build = "part_001" THEN <<"\n\n--- ERROR ---\n">> \o message
    ELSE <<"\\n\\n--- ERROR ---\\n">> \o message

\* popup.js:181 declares isFirst with let inside the try block, so the name
\* is not in scope in the catch block.
IsFirstInScopeOfCatch == FALSE

\* The catch block, popup.js:205-208, for the caught error's message.  The
\* arguments of popup.js:207 are evaluated before the call: reading isFirst
\* raises a ReferenceError, so neither displaySummaryStream nor
\* updatePopupContent runs and the ReferenceError leaves the handler.
CatchBlock(d, a, message) ==
    IF IsFirstInScopeOfCatch
    THEN [raised |-> FALSE,
          dom |-> UpdatePopupContent(
                      DisplaySummaryStream(d, ErrorDelta(message), a.isFirst),
                      Null, Arg(SummarizationErrorMsg(message))),
          calls |-> Append(a.calls,
                           RenderCall("error", ErrorDelta(message), a.isFirst,
                                      [chunkNo |-> a.reads, doneSeen |-> a.doneSeen]))]
    ELSE [raised |-> TRUE, dom |-> d, calls |-> a.calls]

Remove(seq, i) == SubSeq(seq, 1, i - 1) \o SubSeq(seq, i + 1, Len(seq))

\* The activation inflight[i] returns (or its promise rejects) as a.
Return(i, a) ==
    /\ inflight' = Remove(inflight, i)
    /\ ended' = [a EXCEPT !.pc = "done"]

\* An error with this message is thrown inside the try block of inflight[i]:
\* catch, then finally.
Throw(i, a, message, cause) ==
    LET c == CatchBlock(dom, a, message)
    IN  /\ dom' = c.dom
        /\ loading' = IF c.raised THEN loading ELSE ToggleLoading(loading, FALSE)
        /\ summarizeBtn' = RestoreButton(summarizeBtn)
        /\ Return(i, [a EXCEPT !.caught = message, !.cause = cause, !.calls = c.calls,
                               !.outcome = IF c.raised THEN "rejected" ELSE "reported"])

(***************************************************************************)
(* Actions.                                                                *)
(***************************************************************************)
\* A click on the trigger button: by the user, who needs the button in the
\* document, or by a script (handleSummarizeButtonClick, popup.js:229-233).
\* A disabled button gets no click event.  Otherwise the handler runs up to
\* its first await (popup.js:134-140) or through its else branch
\* (popup.js:214-217).
Click(kind) ==
    /\ nClicks < MaxClicks
    /\ kind = "user" => \E k \in DOMAIN dom.contentDiv.kids :
                            dom.contentDiv.kids[k] = "summarizeBtn"
    /\ nClicks' = nClicks + 1
    /\ UNCHANGED <<allReviews, storage, nFetch>>
    /\ IF summarizeBtn.disabled
       THEN UNCHANGED <<dom, loading, summarizeBtn, inflight, ended, nKeyReads>>
       ELSE IF HasReviews(allReviews)
       THEN /\ summarizeBtn' = DisableButton(summarizeBtn)
            /\ dom' = DisplaySummaryStream(dom, <<>>, TRUE)
            /\ nKeyReads' = nKeyReads + 1
            /\ inflight' = Append(inflight,
                   [NewActivation EXCEPT
                       !.pc = "awaitKey",
                       !.clearedText = (dom.summaryOutput.home # "none"
                                        /\ dom.summaryOutput.text # <<>>),
                       !.calls = <<RenderCall("clear", <<>>, TRUE,
                                              [chunkNo |-> 0, doneSeen |-> FALSE])>>])
            /\ ended' = NoActivation
            /\ UNCHANGED loading
       ELSE /\ dom' = UpdatePopupContent(dom, Null, Arg(NoReviewsMsg))
            /\ loading' = ToggleLoading(loading, FALSE)
            /\ ended' = [NewActivation EXCEPT !.pc = "done", !.outcome = "noReviews"]
            /\ UNCHANGED <<summarizeBtn, inflight, nKeyReads>>

\* The credential read of inflight[i] settles (popup.js:140-152): without a
\* key the handler reports and returns; with one it issues the request.
KeyReadSettles(i, readOk) ==
    /\ inflight[i].pc = "awaitKey"
    /\ LET apiKey == GetApiKey(readOk, storage)
           a == [inflight[i] EXCEPT !.apiKey = apiKey,
                                    !.keyLog = LoggedByGetApiKey(readOk, storage),
                                    !.keyRead = IF readOk THEN "read" ELSE "failed"]
       IN  IF KeyMissing(apiKey)
           THEN /\ dom' = UpdatePopupContent(dom, Null, Arg(MissingKeyMsg))
                /\ summarizeBtn' = RestoreButton(summarizeBtn)
                /\ Return(i, [a EXCEPT !.outcome = "noKey"])
                /\ UNCHANGED <<nFetch, allReviews>>
           ELSE /\ dom' = UpdatePopupContent(dom, Null, Arg(StartedMsg))
                /\ allReviews' = AfterJoin(allReviews)
                /\ nFetch' = nFetch + 1
                /\ inflight' = [inflight EXCEPT ![i] =
                       [a EXCEPT !.pc = "awaitFetch",
                                 !.request = BuildRequest(apiKey, allReviews),
                                 !.requests = @ + 1]]
                /\ UNCHANGED <<summarizeBtn, ended>>
    /\ loading' = ToggleLoading(loading, FALSE)
    /\ UNCHANGED <<storage, nClicks, nKeyReads>>

\* The fetch of inflight[i] settles (popup.js:154-183).
FetchSettles(i, response) ==
    /\ inflight[i].pc = "awaitFetch"
    /\ LET a == [inflight[i] EXCEPT !.response = response]
       IN  IF response.rejected THEN Throw(i, a, FetchFailedMsg, "fetch")
           ELSE IF ~response.ok
           THEN /\ inflight' = [inflight EXCEPT ![i] = [a EXCEPT !.pc = "awaitErrorBody"]]
                /\ UNCHANGED <<dom, loading, summarizeBtn, ended>>
           ELSE IF NoBody(response) THEN Throw(i, a, NoBodyMsg, "noBody")
           ELSE /\ inflight' = [inflight EXCEPT ![i] =
                       [a EXCEPT !.pc = "awaitRead", !.isFirst = TRUE, !.pending = FALSE]]
                /\ UNCHANGED <<dom, loading, summarizeBtn, ended>>
    /\ UNCHANGED <<allReviews, storage, nClicks, nKeyReads, nFetch>>

\* response.json() of the error response of inflight[i] settles
\* (popup.js:171-172); a rejection is replaced by {}.
ErrorBodySettles(i, body) ==
    /\ inflight[i].pc = "awaitErrorBody"
    /\ LET a == inflight[i]
           errorData == IF body.rejected THEN JsObj(<<>>) ELSE body.v
       IN  IF errorData.t = "null" THEN Throw(i, a, NullBodyMsg, "api")
           ELSE Throw(i, a, ApiErrorMsg(a.response, errorData), "api")
    /\ UNCHANGED <<allReviews, storage, nClicks, nKeyReads, nFetch>>

\* reader.read() of inflight[i] resolves with a chunk (popup.js:183-200).
ReadChunk(i, bytes) ==
    /\ inflight[i].pc = "awaitRead"
    /\ inflight[i].reads < MaxReads
    /\ LET a == inflight[i]
           dec == Decode(a.pending, bytes)
           st == ProcessChunk([dom |-> dom, isFirst |-> a.isFirst, calls |-> a.calls,
                               doneSeen |-> a.doneSeen, chunkNo |-> a.reads + 1,
                               errors |-> a.parseErrors],
                              dec.out)
       IN  /\ dom' = st.dom
           /\ inflight' = [inflight EXCEPT ![i] =
                  [a EXCEPT !.pending = dec.pending, !.isFirst = st.isFirst,
                            !.calls = st.calls, !.doneSeen = st.doneSeen,
                            !.parseErrors = st.errors,
                            !.reads = @ + 1, !.chunks = Append(@, bytes),
                            !.texts = Append(@, dec.out)]]
    /\ UNCHANGED <<allReviews, storage, loading, summarizeBtn, ended,
                   nClicks, nKeyReads, nFetch>>

\* reader.read() of inflight[i] resolves with done (popup.js:184,202,
\* 209-212).
ReadDone(i) ==
    /\ inflight[i].pc = "awaitRead"
    /\ summarizeBtn' = RestoreButton(summarizeBtn)
    /\ LET after == AfterStream(dom, inflight[i])
       IN  /\ dom' = after.dom
           /\ Return(i, [inflight[i] EXCEPT !.outcome = "finished",
                                            !.calls = after.calls])
    /\ UNCHANGED <<allReviews, storage, loading, nClicks, nKeyReads, nFetch>>

\* reader.read() of inflight[i] rejects.
ReadRejects(i) ==
    /\ inflight[i].pc = "awaitRead"
    /\ Throw(i, inflight[i], ReadFailedMsg, "read")
    /\ UNCHANGED <<allReviews, storage, nClicks, nKeyReads, nFetch>>

(***************************************************************************)
(* The popup after displayReviews (popup.js:241-269) has shown a non-empty *)
(* review set, or with a trigger button made by createSummarizeButton      *)
(* while window.allReviews is unset or empty (as e2e.test.js:79,95-97      *)
(* sets it up; displayReviews makes no button for such a set).  The page   *)
(* may hold an element with id summaryOutput outside the content area      *)
(* (e2e.test.js:73-76).                                                    *)
(***************************************************************************)
\* The content script (content.js:13-29) in a page whose review nodes, the
\* elements matching '[data-hook="review-body"] > span' in document order,
\* have the texts nodes.
ContentScriptIn(nodes) == [page |-> nodes, received |-> <<>>, responses |-> <<>>]

\* An extraction that keeps the texts as they are.
RECURSIVE ExtractReviewsUntrimmed(_)
ExtractReviewsUntrimmed(nodes) ==
    IF nodes = <<>> THEN <<>>
    ELSE (IF nodes[1] # <<>> THEN <<nodes[1]>> ELSE <<>>)
         \o ExtractReviewsUntrimmed(Tail(nodes))

\* content.js:16-24: the trimmed text of each node that has one.
RECURSIVE ExtractReviews(_)
ExtractReviews(nodes) ==
    IF nodes = <<>> THEN <<>>
    ELSE LET reviewText == IF nodes[1] # <<>> THEN Trim(nodes[1]) ELSE <<>>
         IN  (IF reviewText # <<>> THEN <<reviewText>> ELSE <<>>)
             \o ExtractReviews(Tail(nodes))

KeyDetectedMsg == <<"OpenAI API key detected.">>
NoKeyFoundMsg == <<"No OpenAI API key found. Please enter your API key below.">>
KeyCheckErrorMsg == <<"Error checking API key status.">>
KeySavedMsg == <<"OpenAI API key saved successfully.">>
KeySaveErrorMsg == <<"Error saving API key.">>

\* The key section of the popup: home tells whether the page has the
\* element with id apiKey, which gets the status and form divs
\* (popup.js:388-401); pc is the position of checkApiKeyStatus; status is
\* the status div's content; form tells whether the input form is shown;
\* saving holds the keys of the writes that save handlers are waiting for,
\* in the order they were issued; alerted tells
\* whether the save handler has raised its alert; read records how the
\* store read of checkApiKeyStatus ended.
KeyUi(home) ==
    [home |-> home, pc |-> "load", read |-> "none", status |-> <<>>, form |-> FALSE,
     saving |-> <<>>, alerted |-> FALSE]

\* checkApiKeyStatus up to its await (popup.js:323-331).
CheckApiKeyStatus(ui) ==
    IF ~ui.home THEN [ui EXCEPT !.pc = "done"] ELSE [ui EXCEPT !.pc = "awaitStatus"]

\* A status check that shows the form whatever it finds.
AfterKeyStatusFormAlways(ui, readOk, stored) ==
    IF ~readOk
    THEN [ui EXCEPT !.pc = "done", !.read = "failed", !.status = KeyCheckErrorMsg,
                    !.form = TRUE]
    ELSE IF Truthy(stored)
    THEN [ui EXCEPT !.pc = "done", !.read = "ok", !.status = KeyDetectedMsg, !.form = TRUE]
    ELSE [ui EXCEPT !.pc = "done", !.read = "ok", !.status = NoKeyFoundMsg, !.form = TRUE]

\* checkApiKeyStatus after the store read (popup.js:332-343), with
\* displayApiKeyInputForm (popup.js:351-363).
AfterKeyStatus(ui, readOk, stored) ==
    IF ~readOk
    THEN [ui EXCEPT !.pc = "done", !.read = "failed", !.status = KeyCheckErrorMsg]
    ELSE IF Truthy(stored)
    THEN [ui EXCEPT !.pc = "done", !.read = "ok", !.status = KeyDetectedMsg]
    ELSE [ui EXCEPT !.pc = "done", !.read = "ok", !.status = NoKeyFoundMsg, !.form = TRUE]

ReviewsHeading(reviews) == <<"<h4>Reviews (", Len(reviews), "):</h4>">>

\* displayReviews for a non-empty array (popup.js:244-264).
AfterDisplayReviews(d, reviews) ==
    [UpdatePopupContent(d, Arg(ReviewsHeading(reviews)), Null)
        EXCEPT !.contentDiv.kids = <<"summarizeBtn", "list">>]

EmptyDom(home) ==
    [contentDiv |-> [kind |-> "html", value |-> <<>>, kids |-> <<>>],
     summaryOutput |-> [home |-> home, display |-> "", text |-> <<>>]]

\* createSummarizeButton, popup.js:128-131.
CreateSummarizeButton == [disabled |-> FALSE, label |-> IdleLabel]

\* What the callback of chrome.tabs.sendMessage gets (popup.js:279-286):
\* lastError set or not, a response or none, response.reviews an array
\* (hasReviews) or a truthy value of another kind (other: an object without
\* length, or a non-empty string, whose characters, each a string of length
\* one, are then in reviews).
ExtractionOutcome(lastError, response, hasReviews, reviews) ==
    [lastError |-> lastError, response |-> response, hasReviews |-> hasReviews,
     reviews |-> reviews, other |-> "none"]
OtherReviews(other, text) ==
    [ExtractionOutcome(FALSE, TRUE, FALSE, text) EXCEPT !.other = other]
NoExtraction == ExtractionOutcome(FALSE, FALSE, FALSE, <<>>)
Extracted(reviews) == ExtractionOutcome(FALSE, TRUE, TRUE, reviews)

\* The tab of a review page, as getCurrentTab returns it.
TabOf(url, id) == [t |-> "tab", url |-> url, id |-> id]
ReviewPageTab == TabOf(JsStr(ReviewPrefix \o <<"B", "0", "D", "L", "N", "Y", "J", "3", "Y", "R">>), [t |-> "num", n |-> 1])

InitBuild(b) ==
    /\ build = b
    /\ storage \in StoredKeys
    /\ summarizeBtn = CreateSummarizeButton
    /\ inflight = <<>>
    /\ ended = NoActivation
    /\ nClicks = 0
    /\ nKeyReads = 0
    /\ nFetch = 0
    /\ elements = [content |-> TRUE, loading |-> TRUE]
    /\ loading = "none"
    /\ openPc = "done"
    /\ currentTab = ReviewPageTab
    /\ pageInfo = GetPageInfo(ReviewPageTab.url.s)
    /\ nExtract = 1
    /\ contentScript = ContentScriptIn(<<>>)
    /\ apiKeyUi = AfterKeyStatus(CheckApiKeyStatus(KeyUi(TRUE)), TRUE, storage)
    /\ \E home \in {"none", "body"} :
          \/ \E reviews \in ReviewSets :
                /\ allReviews = ReviewsArray(reviews)
                /\ dom = AfterDisplayReviews(EmptyDom(home), reviews)
                /\ list = ReviewList(reviews)
                /\ extraction = Extracted(reviews)
          \/ /\ allReviews \in {NoReviewsSet, ReviewsArray(<<>>)}
             /\ dom = EmptyDom(home)
             /\ list = <<>>
             /\ extraction = NoExtraction

\* The popup runs src/popup.js.
Init == InitBuild("popup.js")

Next ==
    \/ \E kind \in {"user", "script"} : Click(kind) /\ UNCHANGED pageVars
    \/ \E i \in DOMAIN inflight : \E readOk \in BOOLEAN :
          KeyReadSettles(i, readOk) /\ UNCHANGED pageVars
    \/ \E i \in DOMAIN inflight : \E response \in FetchOutcomes :
          FetchSettles(i, response) /\ UNCHANGED pageVars
    \/ \E i \in DOMAIN inflight : \E body \in ErrorBodies :
          ErrorBodySettles(i, body) /\ UNCHANGED pageVars
    \/ \E i \in DOMAIN inflight : \E bytes \in ChunkSet :
          ReadChunk(i, bytes) /\ UNCHANGED pageVars
    \/ \E i \in DOMAIN inflight : ReadDone(i) /\ UNCHANGED pageVars
    \/ \E i \in DOMAIN inflight : ReadRejects(i) /\ UNCHANGED pageVars

Spec == Init /\ [][Next]_vars

\* The steps in which an awaited operation of a session settles for good:
\* the credential read, the fetch, the parse of the error body, and the
\* read that ends the stream (done, or a rejection).
Settles ==
    \/ \E i \in DOMAIN inflight : \E readOk \in BOOLEAN :
          KeyReadSettles(i, readOk) /\ UNCHANGED pageVars
    \/ \E i \in DOMAIN inflight : \E response \in FetchOutcomes :
          FetchSettles(i, response) /\ UNCHANGED pageVars
    \/ \E i \in DOMAIN inflight : \E body \in ErrorBodies :
          ErrorBodySettles(i, body) /\ UNCHANGED pageVars
    \/ \E i \in DOMAIN inflight : ReadDone(i) /\ UNCHANGED pageVars
    \/ \E i \in DOMAIN inflight : ReadRejects(i) /\ UNCHANGED pageVars

\* The sessions when every awaited operation settles eventually and the
\* stream delivers finitely many chunks.
SpecSettling == Init /\ [][Next]_vars /\ WF_vars(Settles)

\* The sessions of either text of the handler the repository holds: that of
\* src/popup.js and the draft in src/unnamed/part_001.
InitBuilds == \E b \in {"popup.js", "part_001"} : InitBuild(b)

SpecBuilds == InitBuilds /\ [][Next]_vars

(***************************************************************************)
(* The opening of the popup: the DOMContentLoaded handlers                 *)
(* (popup.js:388-447), the key section with its form (popup.js:323-383),   *)
(* the extraction round trip (popup.js:277-294) and displayReviews         *)
(* (popup.js:241-269), then the clicks on the trigger button that          *)
(* displayReviews made, each followed up to the completion request         *)
(* (popup.js:133-168).                                                     *)
(***************************************************************************)
MaxReviews == 7

\* Review texts as the content script delivers them: the second is one
\* character longer than a preview, the third as long as a preview.
ReviewNo(k) ==
    IF k = 2 THEN [i \in 1..(PreviewLen + 1) |-> "x"]
    ELSE IF k = 3 THEN [i \in 1..PreviewLen |-> "y"]
    ELSE <<"r">> \o Digits(k)

FirstReviews(n) == [k \in 1..n |-> ReviewNo(k)]

\* What chrome.tabs.query settles with: a rejection, or an array of tabs.
TabUrls == {Undefined} \cup {JsStr(u) : u \in UrlSet}
TabIds == {Undefined, [t |-> "num", n |-> 1]}
TabQueryOutcomes ==
    {[rejected |-> TRUE, tabs |-> <<>>], [rejected |-> FALSE, tabs |-> <<>>]}
    \cup {[rejected |-> FALSE, tabs |-> <<TabOf(u, i)>>] : u \in TabUrls, i \in TabIds}

\* What the callback of chrome.tabs.sendMessage gets: lastError set, no
\* response, a response without reviews, or a response with an array.
LastErrorText == <<"Could not establish connection. Receiving end does not exist.">>
ExtractionOutcomes ==
    { ExtractionOutcome(TRUE, FALSE, FALSE, <<>>),
      ExtractionOutcome(FALSE, FALSE, FALSE, <<>>),
      ExtractionOutcome(FALSE, TRUE, FALSE, <<>>) }
    \cup {Extracted(FirstReviews(n)) : n \in 0..MaxReviews}
    \cup {OtherReviews("object", <<>>), OtherReviews("string", << <<"a">>, <<"b">> >>)}

NoTabInfoMsg == <<"Could not get tab information.">>
NoTabIdMsg == <<"Could not get tab ID.">>
GenericPageMsg ==
    <<"This extension works on Amazon product pages and product review pages.">>
ExtractionErrorMsg(message) == <<"Error: ">> \o message \o <<". Try reloading the page.">>
NoRetrievalMsg ==
    <<"Could not retrieve reviews. Make sure you are on the reviews page and refresh.">>
NoReviewsFoundMsg == <<"No reviews found on this page.">>
\* A link to the product page itself.
ReviewUrlWithDp(asin) == SitePrefix \o <<"x", "/", "d", "p", "/">> \o asin

\* popup.js:304: reviewUrl
ReviewUrl(asin) == ReviewPrefix \o asin

ProductPageHtml(asin) ==
    <<"You are on a product page. <a href=\"">> \o ReviewUrl(asin)
    \o <<"\" target=\"_blank\">Go to the Reviews Page</a> to summarize.">>

NoTab == [t |-> "null", url |-> Undefined, id |-> Undefined]
TabNotRead == [t |-> "undefined", url |-> Undefined, id |-> Undefined]
NoPageInfo == PageInfo("", Undefined)

\* getCurrentTab, popup.js:46-54.
GetCurrentTab(q) ==
    IF q.rejected THEN NoTab
    ELSE IF q.tabs = <<>> THEN NoTab
    ELSE q.tabs[1]

\* updatePopupContent with a text, and what it does to the loading indicator.
ShowText(message) ==
    /\ dom' = UpdatePopupContent(dom, Null, Arg(message))
    /\ loading' = ToggleLoading(loading, FALSE)

\* handleProductPage, popup.js:302-306.
HandleProductPage(asin) ==
    /\ dom' = UpdatePopupContent(dom, Arg(ProductPageHtml(asin)), Null)
    /\ loading' = ToggleLoading(loading, FALSE)

\* handleGenericPage, popup.js:313-316.
HandleGenericPage == ShowText(GenericPageMsg)


\* A displayReviews that makes the list and the button for an empty array
\* too.
ShowsListFor(reviews) == TRUE

\* popup.js:244: reviews.length > 0
ShowsList(reviews) == Len(reviews) > 0

\* displayReviews(reviews), popup.js:241-269.
DisplayReviews(reviews) ==
    IF ShowsList(reviews)
    THEN /\ dom' = AfterDisplayReviews(dom, reviews)
         /\ loading' = ToggleLoading(loading, FALSE)
         /\ summarizeBtn' = CreateSummarizeButton
         /\ list' = ReviewList(reviews)
         /\ allReviews' = ReviewsArray(reviews)
    ELSE /\ ShowText(NoReviewsFoundMsg)
         /\ UNCHANGED <<summarizeBtn, list, allReviews>>

\* displayReviews for a value that is no array.  An object has no length and
\* undefined > 0 is false (popup.js:244,267).  A non-empty string gets the
\* heading and the button (popup.js:245-249); its slice(0, 5) is a string,
\* which has no forEach: popup.js:252 throws a TypeError, so no list is
\* appended and nothing is stored.
DisplayOtherReviews(r) ==
    IF r.other = "string" /\ ShowsList(r.reviews)
    THEN /\ dom' = [AfterDisplayReviews(dom, r.reviews)
                       EXCEPT !.contentDiv.kids = <<"summarizeBtn">>]
         /\ loading' = ToggleLoading(loading, FALSE)
         /\ summarizeBtn' = CreateSummarizeButton
         /\ UNCHANGED <<list, allReviews>>
    ELSE /\ ShowText(NoReviewsFoundMsg)
         /\ UNCHANGED <<summarizeBtn, list, allReviews>>

\* A handler that asks any tab for its reviews.
HasTabIdAlways(tab) == TRUE

\* popup.js:429: currentTab.id
HasTabId(tab) == Truthy(tab.id)

\* The DOMContentLoaded event: the first handler with checkApiKeyStatus up
\* to its await (popup.js:388-404), then the second handler up to its first
\* await (popup.js:406-417).
DomContentLoaded ==
    /\ openPc = "load"
    /\ apiKeyUi' = CheckApiKeyStatus(apiKeyUi)
    /\ IF ~elements.content \/ ~elements.loading
       THEN openPc' = "failed" /\ UNCHANGED loading
       ELSE openPc' = "awaitTab" /\ loading' = ToggleLoading(loading, TRUE)
    /\ UNCHANGED <<allReviews, storage, dom, summarizeBtn, inflight, ended,
                   nClicks, nKeyReads, nFetch, elements, currentTab, pageInfo,
                   nExtract, extraction, list, contentScript, build>>

\* chrome.tabs.query settles: the rest of the handler (popup.js:417-446),
\* with handleReviewPage up to its sendMessage (popup.js:277-279).
TabQuerySettles(q) ==
    /\ openPc = "awaitTab"
    /\ LET tab == GetCurrentTab(q)
       IN  /\ currentTab' = tab
           /\ IF tab.t = "null" \/ ~Truthy(tab.url)
              THEN /\ ShowText(NoTabInfoMsg)
                   /\ openPc' = "done"
                   /\ UNCHANGED <<pageInfo, nExtract>>
              ELSE LET info == GetPageInfo(tab.url.s)
                   IN  /\ pageInfo' = info
                       /\ IF info.type = "review"
                          THEN IF HasTabId(tab)
                               THEN /\ nExtract' = nExtract + 1
                                    /\ openPc' = "awaitReviews"
                                    /\ UNCHANGED <<dom, loading>>
                               ELSE /\ ShowText(NoTabIdMsg)
                                    /\ openPc' = "done"
                                    /\ UNCHANGED nExtract
                          ELSE /\ IF info.type = "product" /\ Truthy(info.asin)
                                  THEN HandleProductPage(info.asin.s)
                                  ELSE HandleGenericPage
                               /\ openPc' = "done"
                               /\ UNCHANGED nExtract
    /\ UNCHANGED <<allReviews, storage, summarizeBtn, inflight, ended,
                   nClicks, nKeyReads, nFetch, elements, extraction, list, apiKeyUi,
                   contentScript, build>>

\* The callback of chrome.tabs.sendMessage runs (popup.js:279-293).
ExtractionSettles(r) ==
    /\ openPc = "awaitReviews"
    /\ openPc' = "done"
    /\ extraction' = r
    /\ IF r.lastError
       THEN /\ ShowText(ExtractionErrorMsg(LastErrorText))
            /\ UNCHANGED <<summarizeBtn, list, allReviews>>
       ELSE IF r.response /\ r.hasReviews
       THEN DisplayReviews(r.reviews)
       ELSE IF r.response /\ r.other # "none"
       THEN DisplayOtherReviews(r)
       ELSE /\ ShowText(NoRetrievalMsg)
            /\ UNCHANGED <<summarizeBtn, list, allReviews>>
    /\ UNCHANGED <<storage, inflight, ended, nClicks, nKeyReads, nFetch,
                   elements, currentTab, pageInfo, nExtract, apiKeyUi, contentScript,
                   build>>

\* What the steps of the key section leave alone.
sessionVars ==
    <<allReviews, dom, summarizeBtn, inflight, ended, nClicks, nKeyReads, nFetch,
      elements, loading, openPc, currentTab, pageInfo, nExtract, extraction, list,
      contentScript, build>>

\* The store read of checkApiKeyStatus settles (popup.js:331-343).
KeyStatusSettles(readOk) ==
    /\ apiKeyUi.pc = "awaitStatus"
    /\ apiKeyUi' = AfterKeyStatus(apiKeyUi, readOk, storage)
    /\ UNCHANGED <<storage, sessionVars>>

\* What the user has typed into the key form when clicking its button.
SaveInputs == {<<" ">>, <<" ", "k", "2", " ">>}

\* popup.js:367: apiKeyInput.value.trim()
KeyToSave(input) == Trim(input)

\* Number of writes of the key form that can be pending together.
MaxSaves == 2

\* A click on the form's button: the save handler up to its await
\* (popup.js:365-370), or its alert (popup.js:379-381).  The button stays
\* enabled while a write is pending, so a click can start another write.
SaveClick(input) ==
    /\ apiKeyUi.form
    /\ LET apiKey == KeyToSave(input)
       IN  IF apiKey # <<>>
           THEN /\ Len(apiKeyUi.saving) < MaxSaves
                /\ apiKeyUi' = [apiKeyUi EXCEPT !.saving = Append(@, apiKey)]
           ELSE apiKeyUi' = [apiKeyUi EXCEPT !.alerted = TRUE]
    /\ UNCHANGED <<storage, sessionVars>>

\* The oldest pending chrome.storage.local.set settles: the value is stored,
\* the status set and the form emptied (popup.js:370-373), or the write
\* failed and only the status is set (popup.js:374-377).
SaveSettles(ok) ==
    /\ apiKeyUi.saving # <<>>
    /\ IF ok
       THEN /\ storage' = JsStr(Head(apiKeyUi.saving))
            /\ apiKeyUi' = [apiKeyUi EXCEPT !.saving = Tail(@), !.status = KeySavedMsg,
                                            !.form = FALSE]
       ELSE /\ apiKeyUi' = [apiKeyUi EXCEPT !.saving = Tail(@), !.status = KeySaveErrorMsg]
            /\ UNCHANGED storage
    /\ UNCHANGED sessionVars

\* displayReviews has created a trigger button.
ButtonMade == "disabled" \in DOMAIN summarizeBtn

\* The popup's page as it is loaded: the content area and the loading
\* indicator may be missing from it; no review set, no button, no list.
InitOpen ==
    /\ build = "popup.js"
    /\ elements \in [content : BOOLEAN, loading : BOOLEAN]
    /\ loading \in {"", "none", "block"}
    /\ openPc = "load"
    /\ currentTab = TabNotRead
    /\ pageInfo = NoPageInfo
    /\ nExtract = 0
    /\ extraction = NoExtraction
    /\ list = <<>>
    /\ allReviews = NoReviewsSet
    /\ storage \in StoredKeys
    /\ \E home \in BOOLEAN : apiKeyUi = KeyUi(home)
    /\ contentScript = ContentScriptIn(<<>>)
    /\ dom = EmptyDom("none")
    /\ summarizeBtn = Null
    /\ inflight = <<>>
    /\ ended = NoActivation
    /\ nClicks = 0
    /\ nKeyReads = 0
    /\ nFetch = 0

NextOpen ==
    \/ DomContentLoaded
    \/ \E q \in TabQueryOutcomes : TabQuerySettles(q)
    \/ \E r \in ExtractionOutcomes : ExtractionSettles(r)
    \/ \E readOk \in BOOLEAN : KeyStatusSettles(readOk)
    \/ \E input \in SaveInputs : SaveClick(input)
    \/ \E ok \in BOOLEAN : SaveSettles(ok)
    \/ \E kind \in {"user", "script"} :
          ButtonMade /\ Click(kind) /\ UNCHANGED pageVars
    \/ \E i \in DOMAIN inflight : \E readOk \in BOOLEAN :
          KeyReadSettles(i, readOk) /\ UNCHANGED pageVars

SpecOpen == InitOpen /\ [][NextOpen]_vars

(***************************************************************************)
(* The content script (content.js:13-29) in the review page: its listener  *)
(* and the messages it gets.  The popup takes no step here.                *)
(***************************************************************************)
MaxNodes == 3
MaxMessages == 2

\* The texts a review node can have: none, blanks only, texts with
\* whitespace around and inside.
NodeTexts ==
    { <<>>, <<" ", "\n", "\f">>, <<" ", "o", "k", " ">>, <<"a", " ", "b">>,
      <<"\t", "c", VT, "U+00A0">> }

Pages == UNION {[1..n -> NodeTexts] : n \in 0..MaxNodes}

\* The messages the listener can get: the popup's, one with another action,
\* one without an action.
GetReviewsRequest == [action |-> JsStr(<<"g", "e", "t", "R", "e", "v", "i", "e", "w", "s">>)]
Requests ==
    { GetReviewsRequest,
      [action |-> JsStr(<<"g", "e", "t", "r", "e", "v", "i", "e", "w", "s">>)],
      [action |-> Undefined] }

\* The variables of the popup.
popupVars ==
    <<allReviews, storage, dom, summarizeBtn, inflight, ended, nClicks, nKeyReads,
      nFetch, elements, loading, openPc, currentTab, pageInfo, nExtract, extraction,
      list, apiKeyUi, build>>

\* The listener runs for a message (content.js:13-28).
OnMessage(request) ==
    /\ Len(contentScript.received) < MaxMessages
    /\ contentScript' =
          IF request.action = GetReviewsRequest.action
          THEN [contentScript EXCEPT
                   !.received = Append(@, request),
                   !.responses = Append(@, [reviews |-> ExtractReviews(contentScript.page),
                                            to |-> Len(contentScript.received) + 1,
                                            keepOpen |-> TRUE])]
          ELSE [contentScript EXCEPT !.received = Append(@, request)]
    /\ UNCHANGED popupVars

InitContent ==
    /\ build = "popup.js"
    /\ \E nodes \in Pages : contentScript = ContentScriptIn(nodes)
    /\ elements = [content |-> TRUE, loading |-> TRUE]
    /\ loading = ""
    /\ openPc = "load"
    /\ currentTab = TabNotRead
    /\ pageInfo = NoPageInfo
    /\ nExtract = 0
    /\ extraction = NoExtraction
    /\ list = <<>>
    /\ allReviews = NoReviewsSet
    /\ storage = Undefined
    /\ apiKeyUi = KeyUi(TRUE)
    /\ dom = EmptyDom("none")
    /\ summarizeBtn = Null
    /\ inflight = <<>>
    /\ ended = NoActivation
    /\ nClicks = 0
    /\ nKeyReads = 0
    /\ nFetch = 0

NextContent == \E request \in Requests : OnMessage(request)

SpecContent == InitContent /\ [][NextContent]_vars


(***************************************************************************)
(* Definitions the properties share.                                       *)
(***************************************************************************)
\* The activations the state holds: those in flight and the last one ended.
Activations == {inflight[i] : i \in DOMAIN inflight} \cup {ended}

ButtonIdle == ~summarizeBtn.disabled /\ summarizeBtn.label = IdleLabel

IsDeltaCall(call) == call.src = "delta"

\* The calls of displaySummaryStream made by the stream loop of a.
DeltaCalls(a) == SelectSeq(a.calls, IsDeltaCall)

DeltaTexts(a) == [k \in 1..Len(DeltaCalls(a)) |-> DeltaCalls(a)[k].text]

\* The text the user sees in the streamed-summary area.
SummaryShown ==
    IF dom.summaryOutput.home = "none" THEN <<>> ELSE dom.summaryOutput.text

\* The 'data:' payloads of a decoded chunk, in order.
PayloadsOf(text) ==
    LET lines == SelectSeq(SplitLines(text), KeepLine)
    IN  [k \in 1..Len(lines) |-> PayloadOf(lines[k])]

IsContentPayload(p) ==
    LET parsed == JSONParse(p)
    IN  /\ parsed.ok
        /\ parsed.v.t # "null"
        /\ Truthy(ContentOf(parsed.v))

IsBadPayload(p) == p # DoneSentinel /\ ~JSONParse(p).ok

\* The content deltas a decoded chunk emits: the contents of its content
\* frames that come before its first [DONE] frame.
EmittedBy(text) ==
    LET ps == PayloadsOf(text)
        dones == {k \in 1..Len(ps) : ps[k] = DoneSentinel}
        Live(k) == \A d \in dones : k < d
        Emits(k) == Live(k) /\ IsContentPayload(ps[k])
        ks == SelectSeq([k \in 1..Len(ps) |-> k], Emits)
        Text(content) == IF Converts(content) THEN ToStr(content) ELSE NoStringForm
    IN  [j \in 1..Len(ks) |-> Text(ContentOf(JSONParse(ps[ks[j]]).v))]

EmittedByAll(texts) == Concat([c \in 1..Len(texts) |-> EmittedBy(texts[c])])

\* The texts of the stream-loop calls made for chunk number c of a.
DeltaTextsOfChunk(a, c) ==
    LET IsOfChunk(call) == call.src = "delta" /\ call.chunkNo = c
        cs == SelectSeq(a.calls, IsOfChunk)
    IN  [k \in 1..Len(cs) |-> cs[k].text]

(***************************************************************************)
(* C1.  Whenever a session that disabled the trigger button has ended, by  *)
(* any path, and no session is in flight, the button is enabled and its    *)
(* label is 'Summarize Reviews'.                                           *)
(***************************************************************************)
C1_ButtonRestoredAfterSession ==
    (inflight = <<>> /\ ended.pc = "done" /\ ended.outcome # "noReviews") => ButtonIdle

\* A session ended by a rejected stream read after a chunk, button idle.
C1_Witness ==
    /\ inflight = <<>>
    /\ ended.outcome = "rejected"
    /\ ended.cause = "read"
    /\ ended.reads >= 1
    /\ ButtonIdle

(***************************************************************************)
(* C2.  At most one activation of the handler is in flight, and a click    *)
(* that arrives while one is in flight starts no session, reads no         *)
(* credential and issues no completion request.                            *)
(***************************************************************************)
C2_AtMostOneSession ==
    /\ [](Len(inflight) <= 1)
    /\ [][(nClicks' = nClicks + 1 /\ inflight # <<>>)
            => (inflight' = inflight /\ nFetch' = nFetch /\ nKeyReads' = nKeyReads)]_vars

\* Two clicks were delivered, one session started and is reading the stream.
C2_Witness ==
    /\ nClicks = 2
    /\ nKeyReads = 1
    /\ Len(inflight) = 1
    /\ inflight[1].pc = "awaitRead"
    /\ nFetch = 1

(***************************************************************************)
(* C3.  With an empty or unset review set, clicks never disable the button *)
(* nor change its label, read no credential and issue no request, and the  *)
(* content area shows 'Error: No reviews found to summarize.' once a click *)
(* has been handled.                                                       *)
(***************************************************************************)
C3_NoReviewsNoSession ==
    (~allReviews.set \/ allReviews.items = <<>>) =>
        /\ ButtonIdle
        /\ inflight = <<>>
        /\ nKeyReads = 0
        /\ nFetch = 0
        /\ nClicks > 0 =>
              /\ dom.contentDiv = [kind |-> "text", value |-> NoReviewsMsg, kids |-> <<>>]
              /\ ended.outcome = "noReviews"

\* Two clicks handled with an empty array.
C3_Witness ==
    /\ allReviews.set
    /\ allReviews.items = <<>>
    /\ nClicks = 2
    /\ dom.contentDiv.value = NoReviewsMsg

(***************************************************************************)
(* C4.  A session whose credential read gives no key (nothing stored, the  *)
(* empty string stored, or the read fails) ends with the missing-key       *)
(* message in the content area and the button idle, without having issued  *)
(* a request; only a session that read a non-empty key gets past the read. *)
(***************************************************************************)
StoredKeyUsable == storage.t = "str" /\ storage.s # <<>>

C4_MissingKeyShortCircuits ==
    /\ \A a \in Activations :
          (a.keyRead # "none" /\ (a.keyRead = "failed" \/ ~StoredKeyUsable))
              => (a.pc = "done" /\ a.outcome = "noKey")
    /\ (inflight = <<>> /\ ended.outcome = "noKey") =>
          /\ dom.contentDiv = [kind |-> "text", value |-> MissingKeyMsg, kids |-> <<>>]
          /\ ButtonIdle
          /\ ended.requests = 0
          /\ ~ended.request.sent
    /\ \A a \in Activations : a.pc = "awaitKey" => a.requests = 0

\* A session ended because the store read failed although a key is stored.
C4_Witness ==
    /\ inflight = <<>>
    /\ ended.outcome = "noKey"
    /\ ended.keyRead = "failed"
    /\ StoredKeyUsable
    /\ ended.requests = 0

(***************************************************************************)
(* C5.  The stream loop calls the renderer once for every content delta    *)
(* the chunks read so far emit, in order, with isFirst true in the first   *)
(* of these calls of the session and false in every later one.             *)
(***************************************************************************)
C5_OneCallPerDeltaFirstFlag ==
    \A a \in Activations :
        /\ DeltaTexts(a) = EmittedByAll(a.texts)
        /\ \A k \in 1..Len(DeltaCalls(a)) : DeltaCalls(a)[k].isFirst = (k = 1)

HasMarkup(text) == \E k \in DOMAIN text : text[k] \in {"<", "&"}

(***************************************************************************)
(* C6, with the deltas read as markup.  When the stream of a session ends  *)
(* normally, every content delta of the session has been appended: none    *)
(* was dropped, and the text in the streamed-summary area is the           *)
(* concatenation, in order, of the text that each delta yields when parsed *)
(* as HTML; it is the concatenation of the deltas themselves when no delta *)
(* holds a '<' or a '&'.                                                   *)
(***************************************************************************)
C6_TextIsConcatenationOfParsedDeltas ==
    (inflight = <<>> /\ ended.outcome = "finished") =>
        LET ds == DeltaTexts(ended)
        IN  /\ \A k \in 1..Len(ds) : ds[k] # NoStringForm
            /\ SummaryShown = Concat([k \in 1..Len(ds) |-> HtmlText(ds[k])])
            /\ (\A k \in 1..Len(ds) : ~HasMarkup(ds[k])) => SummaryShown = Concat(ds)

(***************************************************************************)
(* C7.  As claimed: the deltas rendered for a stream are those rendered    *)
(* when the whole stream text arrives as one chunk, however the text is    *)
(* cut into chunks.                                                        *)
(***************************************************************************)
RenderedFromOneChunk(a) ==
    LET whole == Decode(FALSE, Concat(a.chunks)).out
        st == ProcessChunk([dom |-> dom, isFirst |-> TRUE, calls |-> <<>>,
                            doneSeen |-> FALSE, chunkNo |-> 1, errors |-> <<>>], whole)
    IN  [k \in 1..Len(st.calls) |-> st.calls[k].text]

C7_SameDeltasForEveryChunking ==
    (inflight = <<>> /\ ended.outcome = "finished") =>
        DeltaTexts(ended) = RenderedFromOneChunk(ended)

(***************************************************************************)
(* C8.  As claimed: once a [DONE] frame has been met in a session, no      *)
(* content delta of a later frame is rendered, in the same chunk or in a   *)
(* later one, and the session ends without an error.                       *)
(***************************************************************************)
C8_NothingRenderedAfterDone ==
    \A a \in Activations :
        /\ \A k \in 1..Len(DeltaCalls(a)) : ~DeltaCalls(a)[k].afterDone
        /\ (a.doneSeen /\ a.outcome = "finished") => a.caught = <<>>

(***************************************************************************)
(* C9.  A frame whose payload is not valid JSON does not end the session   *)
(* and reports nothing: in a session that met such a frame, every chunk    *)
(* still renders exactly the content frames it holds before its first      *)
(* [DONE] frame, the session ends only by the end of the stream or a       *)
(* rejected read, and until then the content area keeps the 'started'      *)
(* message.                                                                *)
(***************************************************************************)
MetBadFrame(a) ==
    \E c \in 1..Len(a.texts) :
        LET ps == PayloadsOf(a.texts[c])
        IN  \E k \in 1..Len(ps) : IsBadPayload(ps[k])

C9_BadFrameIsSkipped ==
    \A a \in Activations :
        MetBadFrame(a) =>
            /\ \A c \in 1..Len(a.texts) : DeltaTextsOfChunk(a, c) = EmittedBy(a.texts[c])
            /\ a.pc = "awaitRead" \/ a.outcome = "finished" \/ a.cause = "read"
            /\ a.cause # "read" =>
                  /\ a.caught = <<>>
                  /\ dom.contentDiv.value = StartedMsg
                  /\ \A k \in 1..Len(a.calls) : a.calls[k].src # "error"

\* A finished session: B, a bad frame and A in the first chunk, A in the
\* second; B, A and A were rendered.
C9_Witness ==
    /\ ended.outcome = "finished"
    /\ Len(ended.chunks) = 2
    /\ ended.chunks[1] = FrameB \o NL \o FrameBad \o NL \o FrameA \o NL
    /\ ended.chunks[2] = FrameA \o NL
    /\ DeltaTexts(ended) = << <<"B">>, <<"A">>, <<"A">> >>

(***************************************************************************)
(* C10.  As claimed: when an error is raised after the credential check    *)
(* (fetch rejection, non-2xx response, missing body, rejected read), the   *)
(* streamed-summary area receives one more delta, the error marker         *)
(* followed by the error's message, and the content area shows 'Error      *)
(* during summarization: ' followed by the message.                        *)
(***************************************************************************)
C10_ErrorIsReported ==
    (inflight = <<>> /\ ended.pc = "done" /\ ended.cause # "none") =>
        /\ \E k \in 1..Len(ended.calls) :
              /\ ended.calls[k].src = "error"
              /\ ended.calls[k].text = ErrorDelta(ended.caught)
        /\ dom.contentDiv.kind = "text"
        /\ dom.contentDiv.value = SummarizationErrorMsg(ended.caught)

(***************************************************************************)
(* C11.  As claimed: no error raised during a session leaves the click     *)
(* handler; on every error path the handler returns normally, the          *)
(* streamed-summary area ends with the error delta and the content area    *)
(* shows the error message.                                                *)
(***************************************************************************)
EndsWith(s, t) == Len(s) >= Len(t) /\ SubSeq(s, Len(s) - Len(t) + 1, Len(s)) = t

C11_NoErrorLeavesHandler ==
    \A a \in Activations :
        (a.pc = "done" /\ a.cause # "none") =>
            /\ a.outcome = "reported"
            /\ EndsWith(SummaryShown, HtmlText(ErrorDelta(a.caught)))
            /\ dom.contentDiv.value = SummarizationErrorMsg(a.caught)

(***************************************************************************)
(* C12.  As claimed: after a session has ended, by success or by error,    *)
(* the popup is idle over the same non-empty review set and the user can   *)
(* activate the trigger again: the button is enabled, carries the idle     *)
(* label and is in the document.                                           *)
(***************************************************************************)
TriggerInDocument ==
    \E k \in DOMAIN dom.contentDiv.kids : dom.contentDiv.kids[k] = "summarizeBtn"

SessionEnded ==
    inflight = <<>> /\ ended.pc = "done" /\ ended.outcome # "noReviews"

C12_UserCanStartAgain ==
    SessionEnded =>
        /\ ButtonIdle
        /\ allReviews.set /\ allReviews.items # <<>>
        /\ TriggerInDocument

(***************************************************************************)
(* C13.  Whenever an activation of the handler is suspended at a           *)
(* credential read, a completion request, the parse of an error body or a  *)
(* stream read, the trigger button is disabled and its label is            *)
(* 'Summarizing...'.                                                       *)
(***************************************************************************)
C13_DisabledWhilePending ==
    \A i \in DOMAIN inflight :
        /\ inflight[i].pc \in {"awaitKey", "awaitFetch", "awaitErrorBody", "awaitRead"}
        /\ summarizeBtn.disabled
        /\ summarizeBtn.label = BusyLabel

\* A session that has read two chunks and waits for the next read.
C13_Witness ==
    /\ Len(inflight) = 1
    /\ inflight[1].pc = "awaitRead"
    /\ inflight[1].reads = 2
    /\ summarizeBtn.disabled
    /\ summarizeBtn.label = BusyLabel

(***************************************************************************)
(* C14.  The streamed-summary area holds text of the current session       *)
(* only: it is empty when a session has started and rendered no delta,     *)
(* and otherwise holds what the deltas of that session parsed to, whatever *)
(* an earlier session left in it.                                          *)
(***************************************************************************)
ParsedDeltas(a) ==
    LET Parsed(text) == IF text = NoStringForm THEN <<>> ELSE HtmlText(text)
    IN  Concat([k \in 1..Len(DeltaTexts(a)) |-> Parsed(DeltaTexts(a)[k])])

C14_AreaHoldsCurrentSessionOnly ==
    \A a \in Activations :
        (a.pc \notin {"never", "start"} /\ a.outcome # "noReviews") =>
            SummaryShown = ParsedDeltas(a)

\* A session that cleared the text of an earlier one and rendered a delta.
C14_Witness ==
    /\ Len(inflight) = 1
    /\ inflight[1].clearedText
    /\ Len(DeltaTexts(inflight[1])) = 1
    /\ SummaryShown = HtmlText(DeltaTexts(inflight[1])[1])
    /\ SummaryShown # <<>>

(***************************************************************************)
(* C15.  At every point of a session and after it, window.allReviews is    *)
(* the array displayReviews stored, with the same length, order and        *)
(* contents (and stays unset or empty when displayReviews stored none).    *)
(***************************************************************************)
C15_ReviewSetNotModified ==
    IF extraction.hasReviews /\ extraction.reviews # <<>>
    THEN allReviews = [set |-> TRUE, items |-> extraction.reviews]
    ELSE allReviews.items = <<>>

\* A finished session that sent the reviews, which are still stored.
C15_Witness ==
    /\ inflight = <<>>
    /\ ended.outcome = "finished"
    /\ ended.request.sent
    /\ ended.reads >= 1
    /\ allReviews.set
    /\ Len(allReviews.items) = 2
    /\ allReviews.items = extraction.reviews
    /\ ended.request.user = PromptPrefix \o Join(allReviews.items, ReviewSeparator)

(***************************************************************************)
(* Definitions the properties of the opening share.                        *)
(***************************************************************************)
\* getPageInfo has been applied to the URL of the current tab.
Classified == pageInfo.type # ""

TabUrl == currentTab.url.s

IsIdentifier(asin) ==
    /\ asin.t = "str"
    /\ Len(asin.s) = 10
    /\ \A k \in 1..Len(asin.s) : asin.s[k] \in AsinChars

(***************************************************************************)
(* C16.  For every URL that matches the review-page pattern, the product   *)
(* pattern matching it too or not, getPageInfo returns type 'review' and   *)
(* the ten characters that follow the review path prefix.                  *)
(***************************************************************************)
C16_ReviewUrlIsReview ==
    (Classified /\ ReviewMatch(TabUrl).matched) =>
        /\ pageInfo.type = "review"
        /\ IsIdentifier(pageInfo.asin)
        /\ pageInfo.asin.s = SubSeq(TabUrl, Len(ReviewPrefix) + 1, Len(ReviewPrefix) + 10)

\* A classified URL that matches both patterns.
C16_Witness ==
    /\ Classified
    /\ ReviewMatch(TabUrl).matched
    /\ ProductMatch(TabUrl).matched
    /\ pageInfo.type = "review"
    /\ pageInfo.asin.s = <<"B", "0", "D", "L", "N", "Y", "J", "3", "Y", "R">>

(***************************************************************************)
(* C17.  For every URL that matches the product-page pattern and not the   *)
(* review-page pattern, getPageInfo returns type 'product' and ten         *)
(* identifier characters that follow a '/dp/' of the URL.                  *)
(***************************************************************************)
C17_ProductUrlIsProduct ==
    (Classified /\ ProductMatch(TabUrl).matched /\ ~ReviewMatch(TabUrl).matched) =>
        /\ pageInfo.type = "product"
        /\ IsIdentifier(pageInfo.asin)
        /\ \E p \in 1..(Len(TabUrl) - 13) :
              /\ SubSeq(TabUrl, p, p + 3) = DpMarker
              /\ SubSeq(TabUrl, p + 4, p + 13) = pageInfo.asin.s

\* A product URL whose identifier is followed by more of the path.
C17_Witness ==
    /\ Classified
    /\ TabUrl = SitePrefix \o <<"x", "/", "d", "p", "/", "B", "0", "D", "L", "N", "Y", "J", "3", "Y", "R", "/", "r", "e", "f", "?", "k", "=", "1">>
    /\ pageInfo = PageInfo("product", JsStr(<<"B", "0", "D", "L", "N", "Y", "J", "3", "Y", "R">>))

(***************************************************************************)
(* C18.  Every URL that matches neither pattern yields type 'other' with a *)
(* null identifier, and the popup shows the generic-page message.          *)
(***************************************************************************)
C18_OtherUrlIsOther ==
    (Classified /\ ~ReviewMatch(TabUrl).matched /\ ~ProductMatch(TabUrl).matched) =>
        /\ pageInfo = PageInfo("other", JsNull)
        /\ openPc = "done"
        /\ dom.contentDiv = [kind |-> "text", value |-> GenericPageMsg, kids |-> <<>>]

\* A URL of the site with a line break before its '/dp/' segment.
C18_Witness ==
    /\ Classified
    /\ StartsWith(TabUrl, SitePrefix)
    /\ \E k \in DOMAIN TabUrl : TabUrl[k] = "\n"
    /\ \E p \in 1..(Len(TabUrl) - 3) : SubSeq(TabUrl, p, p + 3) = DpMarker
    /\ pageInfo.type = "other"
    /\ pageInfo.asin = JsNull

(***************************************************************************)
(* C19.  After displayReviews has shown a set of n >= 1 reviews, the list  *)
(* holds one entry for each of the first min(n, 5) reviews, in order, and, *)
(* when n > 5, one more entry '... and N more.' with N = n - 5 and nothing *)
(* else; the heading shows n.                                              *)
(***************************************************************************)
C19_ListShowsFiveAndMore ==
    (extraction.hasReviews /\ extraction.reviews # <<>>) =>
        LET reviews == extraction.reviews
            n == Len(reviews)
            shown == IF n <= 5 THEN n ELSE 5
        IN  /\ \A k \in 1..shown : list[k] = PreviewOf(reviews[k])
            /\ n <= 5 => Len(list) = n
            /\ n > 5 => /\ Len(list) = 6
                        /\ list[6] = <<".", ".", ".", " ", "a", "n", "d", " ">> \o Digits(n - 5) \o <<" ", "m", "o", "r", "e", ".">>
            /\ nClicks = 0 =>
                  /\ dom.contentDiv.kind = "html"
                  /\ dom.contentDiv.value = <<"<h4>Reviews (", n, "):</h4>">>

\* Seven reviews displayed: five entries and '... and 2 more.'.
C19_Witness ==
    /\ extraction.hasReviews
    /\ Len(extraction.reviews) = 7
    /\ Len(list) = 6
    /\ list[1] = <<"r", "1">>
    /\ list[6] = <<".", ".", ".", " ", "a", "n", "d", " ", "2", " ", "m", "o", "r", "e", ".">>
    /\ nClicks = 0

(***************************************************************************)
(* C20.  After displayReviews has been given an empty array, the content   *)
(* area shows 'No reviews found on this page.', there is no trigger button *)
(* and no list, and no session starts: no click is delivered, no           *)
(* credential is read and no request is issued.                            *)
(***************************************************************************)
C20_EmptySetNoTrigger ==
    (extraction.hasReviews /\ extraction.reviews = <<>>) =>
        /\ dom.contentDiv =
              [kind |-> "text", value |-> <<"No reviews found on this page.">>,
               kids |-> <<>>]
        /\ ~ButtonMade
        /\ list = <<>>
        /\ ~allReviews.set
        /\ inflight = <<>>
        /\ nClicks = 0
        /\ nKeyReads = 0
        /\ nFetch = 0

\* The extraction answered with an empty array and the popup has shown it.
C20_Witness ==
    /\ openPc = "done"
    /\ nExtract = 1
    /\ extraction.hasReviews
    /\ extraction.reviews = <<>>
    /\ dom.contentDiv.value = NoReviewsFoundMsg
    /\ loading = "none"

(***************************************************************************)
(* C21.  As claimed: when the extraction callback has run without an error *)
(* and the response is missing or holds no reviews array, the content area *)
(* shows the 'Could not retrieve reviews' message, no trigger button has   *)
(* been made, and one extraction request was sent in all.                  *)
(***************************************************************************)
C21_MalformedResponseNotRetrieved ==
    (openPc = "done" /\ nExtract = 1 /\ ~extraction.lastError
        /\ ~(extraction.response /\ extraction.hasReviews)) =>
        /\ dom.contentDiv =
              [kind |-> "text",
               value |-> <<"Could not retrieve reviews. Make sure you are on the reviews page and refresh.">>,
               kids |-> <<>>]
        /\ ~ButtonMade
        /\ list = <<>>
        /\ ~allReviews.set
        /\ nClicks = 0

(***************************************************************************)
(* C22.  As claimed: a session whose response has a non-2xx status reads   *)
(* no chunk and renders no content delta, and the error it raises has the  *)
(* message 'OpenAI API Error: <status> <statusText> - ' followed by the    *)
(* server's message or by 'Unknown error'.                                 *)
(***************************************************************************)
GotErrorStatus(a) ==
    /\ a.pc \in {"awaitErrorBody", "done"}
    /\ a.requests = 1
    /\ ~a.response.rejected
    /\ ~a.response.ok

\* C22: after a non-2xx response no chunk is read, no delta is rendered and
\* the error raised names the status and the server's message or 'Unknown
\* error'.
C22_ErrorStatusRaisesApiError ==
    \A a \in Activations :
        GotErrorStatus(a) =>
            /\ a.reads = 0
            /\ DeltaCalls(a) = <<>>
            /\ a.pc = "done" =>
                  \/ a.caught = <<"OpenAI API Error: ", a.response.status, " ",
                                  a.response.statusText, " - ">> \o ServerMessage
                  \/ a.caught = <<"OpenAI API Error: ", a.response.status, " ",
                                  a.response.statusText, " - ", "Unknown error">>



\* The fetch of a settled with a success status and no readable stream.
GotNoBody(a) ==
    /\ a.pc \notin {"awaitKey", "awaitFetch"}
    /\ a.requests > 0
    /\ ~a.response.rejected
    /\ a.response.ok
    /\ ~a.response.body

\* C23: a session whose response has a success status and no body raises
\* the stream-unavailable error before any read: it has ended, the error
\* caught is that one, no chunk was read, no content delta was rendered,
\* and once no session is pending the button is idle again.
C23_NoBodyRaisesBeforeRead ==
    \A a \in Activations :
        GotNoBody(a) =>
            /\ a.pc = "done"
            /\ a.cause = "noBody"
            /\ a.caught = <<"Response body is null, cannot read stream.">>
            /\ a.reads = 0
            /\ DeltaCalls(a) = <<>>
            /\ inflight = <<>> => ButtonIdle

C23_Witness ==
    /\ GotNoBody(ended)
    /\ ended.cause = "noBody"
    /\ inflight = <<>>
    /\ ButtonIdle


IsErrorCall(call) == call.src = "error"

\* C24: after a stream that ended normally the button is idle, the
\* streamed-summary area holds what the session's content deltas parsed to
\* and nothing after it, no error was caught or rendered, and the primary
\* area still shows 'Summarization started...'.  It holds of the handler of
\* src/popup.js, where the call after the loop is commented out
\* (popup.js:203), and fails for the draft, whose call (part_001:176) puts
\* the end marker after the last delta.
C24_NormalEndAddsNothing ==
    ended.outcome = "finished" =>
        /\ inflight = <<>>
        /\ ButtonIdle
        /\ SummaryShown = ParsedDeltas(ended)
        /\ ended.caught = <<>>
        /\ SelectSeq(ended.calls, IsErrorCall) = <<>>
        /\ dom.contentDiv.kind = "text"
        /\ dom.contentDiv.value = <<"Summarization started...">>

\* The activation a got past the credential check of popup.js:141.
PassedKeyCheck(a) ==
    /\ a.pc \notin {"never", "start", "awaitKey"}
    /\ a.outcome \notin {"noKey", "noReviews"}

\* C25: every session past the credential check has issued exactly one
\* completion request, with stream true and the header 'Bearer ' followed
\* by the stored key, and still exactly one after any failure; no more
\* requests were issued than sessions were started.
C25_OneStreamingRequest ==
    /\ \A a \in Activations :
          PassedKeyCheck(a) =>
              /\ a.requests = 1
              /\ a.request.sent
              /\ a.request.stream
              /\ a.request.authorization = <<"Bearer ">> \o storage.s
    /\ \A a \in Activations : ~PassedKeyCheck(a) => a.requests = 0 /\ ~a.request.sent
    /\ nFetch <= nKeyReads

\* A second session whose request failed, after a first that also issued
\* one.
C25_Witness ==
    /\ nFetch = 2
    /\ PassedKeyCheck(ended)
    /\ ended.cause = "fetch"
    /\ ended.requests = 1
    /\ ended.request.authorization = <<"Bearer ", "s", "k">>


\* The introduction, a blank line, then the reviews in order with
\* '\n---\n' between neighbours.
UserMessageFor(reviews) ==
    LET upTo[k \in 0..Len(reviews)] ==
            IF k = 0 THEN <<"Here are the product reviews to summarize:", "\n", "\n">>
            ELSE IF k = 1 THEN upTo[0] \o reviews[1]
            ELSE upTo[k - 1] \o <<"\n", "-", "-", "-", "\n">> \o reviews[k]
    IN  upTo[Len(reviews)]

\* C26: the user message of every completion request is the introduction,
\* a blank line, and every review the content script delivered, whole,
\* once and in order, joined by '\n---\n', for review sets of every size.
C26_PromptHoldsEveryReview ==
    \A a \in Activations :
        a.request.sent =>
            /\ extraction.hasReviews
            /\ extraction.reviews # <<>>
            /\ a.request.user = UserMessageFor(extraction.reviews)

\* A request for more reviews than the list shows, one of them longer than
\* a preview.
C26_Witness ==
    /\ Len(inflight) = 1
    /\ inflight[1].request.sent
    /\ Len(extraction.reviews) > ShownMax
    /\ \E k \in DOMAIN extraction.reviews : Len(extraction.reviews[k]) > PreviewLen
    /\ inflight[1].request.user = UserMessageFor(extraction.reviews)


\* C27: in every step in which a session's credential read settles and the
\* session issues its request, the key in the request's Authorization
\* header is the value the store holds at that read, whatever an earlier
\* session read; and a session whose read fails or finds no usable key in
\* the store at that moment issues none.
C27_KeyIsReadAnew ==
    [][ (Len(inflight) = 1 /\ inflight[1].pc = "awaitKey" /\ inflight' # inflight) =>
            IF Len(inflight') = 1
            THEN /\ inflight'[1].pc = "awaitFetch"
                 /\ storage.t = "str"
                 /\ storage.s # <<>>
                 /\ inflight'[1].request.authorization = <<"Bearer ">> \o storage.s
            ELSE /\ ended'.outcome = "noKey"
                 /\ ~ended'.request.sent
                 /\ (ended'.keyRead = "failed" \/ ~StoredKeyUsable)
      ]_vars

\* A first attempt found no key; the key was then saved through the form
\* and the second attempt sends it.
C27_Witness ==
    /\ nKeyReads = 2
    /\ nFetch = 1
    /\ apiKeyUi.status = <<"OpenAI API key saved successfully.">>
    /\ storage = JsStr(<<"k", "2">>)
    /\ Len(inflight) = 1
    /\ inflight[1].pc = "awaitFetch"
    /\ inflight[1].request.authorization = <<"Bearer ", "k", "2">>


\* A payload that parses as JSON and holds no content to render.
IsNoContentPayload(p) ==
    LET parsed == JSONParse(p)
    IN  /\ parsed.ok
        /\ parsed.v.t = "null" \/ ~Truthy(ContentOf(parsed.v))

MetNoContentFrame(a) ==
    \E c \in 1..Len(a.texts) :
        LET ps == PayloadsOf(a.texts[c])
        IN  \E k \in 1..Len(ps) : IsNoContentPayload(ps[k])

\* C28: in a session that met a frame which parses as JSON and has no
\* content, such frames rendered nothing (the deltas rendered are those of
\* the frames with content), raised no error (the errors the loop caught
\* are all of payloads that do not parse, and none left the loop), and left
\* the first-delta flag alone (it is still true while nothing is rendered,
\* and the first delta rendered got it).
C28_FrameWithoutContentIsSilent ==
    \A a \in Activations :
        MetNoContentFrame(a) =>
            /\ DeltaTexts(a) = EmittedByAll(a.texts)
            /\ \A k \in 1..Len(DeltaCalls(a)) : DeltaCalls(a)[k].isFirst = (k = 1)
            /\ a.pc = "awaitRead" => a.isFirst = (DeltaCalls(a) = <<>>)
            /\ \A k \in 1..Len(a.parseErrors) : ~JSONParse(a.parseErrors[k].jsonStr).ok
            /\ a.cause # "read" => a.caught = <<>>


\* The text with the whitespace in front of every line removed.
WithoutIndent(text) ==
    LET lines == SplitLines(text)
    IN  Join([k \in 1..Len(lines) |-> TrimStart(lines[k])], NL)

\* C29: the deltas rendered for a chunk are those of the same chunk with
\* the whitespace in front of every line removed: a kept line yields the
\* same delta with and without whitespace before its marker.
C29_IndentMakesNoDifference ==
    \A a \in Activations :
        \A c \in 1..Len(a.texts) :
            DeltaTextsOfChunk(a, c) = EmittedBy(WithoutIndent(a.texts[c]))


\* The number of uppercase alphanumeric characters of url from position p
\* up to the first character of another kind.
IdRunLength(url, p) ==
    LET Stops(q) == q > Len(url) \/ url[q] \notin AsinChars
        end == CHOOSE q \in p..(Len(url) + 1) :
                   Stops(q) /\ \A r \in p..(q - 1) : ~Stops(r)
    IN  end - p

\* C30: getPageInfo returns type 'review' only for a URL in which the
\* review path prefix is followed by a run of exactly ten uppercase
\* alphanumeric characters; a longer run is not a review page with the
\* run's first ten characters as identifier.
C30_ReviewOnlyForTenCharacterRun ==
    (Classified /\ pageInfo.type = "review") =>
        /\ StartsWith(TabUrl, ReviewPrefix)
        /\ IdRunLength(TabUrl, Len(ReviewPrefix) + 1) = 10


\* C31: at most one 'getReviews' message is sent, and only for a tab whose
\* URL matches the review-page pattern and which has an id; for a URL of
\* another kind no message is sent, no trigger button exists, no session
\* was ever started and no completion request issued.
C31_OneExtractionOnReviewPagesOnly ==
    /\ nExtract <= 1
    /\ nExtract = 1 =>
          /\ pageInfo.type = "review"
          /\ ReviewMatch(TabUrl).matched
          /\ currentTab.id.t = "num"
    /\ (Classified /\ pageInfo.type # "review") =>
          /\ nExtract = 0
          /\ ~ButtonMade
          /\ nFetch = 0
          /\ nKeyReads = 0
          /\ inflight = <<>>
          /\ ~ended.request.sent

\* The message has been sent for a review page and answered, and a session
\* has issued its request.
C31_Witness ==
    /\ nExtract = 1
    /\ pageInfo.type = "review"
    /\ extraction.hasReviews
    /\ nFetch = 1


\* text holds more than whitespace.
HasText(text) == \E k \in 1..Len(text) : text[k] \notin WhiteSpace

\* text without the whitespace at its ends.
Stripped(text) ==
    LET inked == {k \in 1..Len(text) : text[k] \notin WhiteSpace}
        first == CHOOSE k \in inked : \A j \in inked : k <= j
        last == CHOOSE k \in inked : \A j \in inked : j <= k
    IN  SubSeq(text, first, last)

\* reviews holds the stripped texts of the nodes that have text, in the
\* nodes' order, and nothing else.
IsExtractionOf(reviews, nodes) ==
    LET IsKept(k) == HasText(nodes[k])
        kept == SelectSeq([k \in 1..Len(nodes) |-> k], IsKept)
    IN  /\ Len(reviews) = Len(kept)
        /\ \A j \in 1..Len(kept) : reviews[j] = Stripped(nodes[kept[j]])

IsGetReviews(request) ==
    request.action = JsStr(<<"g", "e", "t", "R", "e", "v", "i", "e", "w", "s">>)

\* C32: the listener has sent one response for each 'getReviews' message it
\* received, in the order received, and none for any other message; the
\* reviews of each response are the trimmed non-empty texts of the page's
\* review nodes in document order.
C32_OneResponsePerGetReviews ==
    LET cs == contentScript
        asked == SelectSeq([k \in 1..Len(cs.received) |-> k],
                           LAMBDA k : IsGetReviews(cs.received[k]))
    IN  /\ Len(cs.responses) = Len(asked)
        /\ \A j \in 1..Len(asked) :
              /\ cs.responses[j].to = asked[j]
              /\ IsExtractionOf(cs.responses[j].reviews, cs.page)

\* A message with another action, then a 'getReviews' message answered for
\* a page with an empty node, a blank node and a node with text.
C32_Witness ==
    /\ Len(contentScript.received) = 2
    /\ ~IsGetReviews(contentScript.received[1])
    /\ IsGetReviews(contentScript.received[2])
    /\ Len(contentScript.responses) = 1
    /\ contentScript.page = << <<>>, <<" ", "\n", "\f">>, <<" ", "o", "k", " ">> >>
    /\ contentScript.responses[1].reviews = << <<"o", "k">> >>


\* The activation i waits for its fetch or for a stream read.
WaitsForNetwork(i) == inflight[i].pc \in {"awaitFetch", "awaitRead"}

\* C33: while a session waits for its fetch or for a stream read, every
\* step other than the settling of that wait (further clicks, the reading
\* of a chunk that leaves it waiting for the next) leaves it waiting with
\* the trigger button disabled and labelled 'Summarizing...': nothing but
\* the awaited operation ends the wait.
C33_OnlySettlingEndsTheWait ==
    [][ \A i \in DOMAIN inflight :
            WaitsForNetwork(i) =>
                \/ /\ i \in DOMAIN inflight'
                   /\ inflight'[i].pc = inflight[i].pc
                   /\ inflight'[i].requests = inflight[i].requests
                   /\ summarizeBtn'.disabled
                   /\ summarizeBtn'.label = "Summarizing..."
                \/ /\ inflight[i].pc = "awaitFetch"
                   /\ nFetch' = nFetch
                   /\ \/ i \in DOMAIN inflight' /\ inflight'[i].pc \in {"awaitErrorBody", "awaitRead"}
                      \/ inflight' = Remove(inflight, i) /\ ended'.cause \in {"fetch", "noBody"}
                \/ /\ inflight[i].pc = "awaitRead"
                   /\ inflight' = Remove(inflight, i)
                   /\ ended'.outcome = "finished" \/ ended'.cause = "read"
      ]_vars

\* A session still waiting for a read after a chunk, with a click made on
\* the disabled button meanwhile.
C33_Witness ==
    /\ Len(inflight) = 1
    /\ inflight[1].pc = "awaitRead"
    /\ inflight[1].reads = 1
    /\ nClicks = 2
    /\ summarizeBtn.disabled


\* C34: when every awaited operation settles eventually and the stream
\* delivers finitely many chunks, a disabled trigger button is eventually
\* enabled again with the label 'Summarize Reviews'.
C34_DisabledLeadsToIdle ==
    summarizeBtn.disabled ~> (~summarizeBtn.disabled /\ summarizeBtn.label = "Summarize Reviews")

\* A session that read two chunks and whose third read was rejected has
\* ended with the button idle.
C34_Witness ==
    /\ inflight = <<>>
    /\ ended.pc = "done"
    /\ ended.cause = "read"
    /\ ended.reads = MaxReads
    /\ ButtonIdle


\* The content area shows a text written by updatePopupContent.
ShowsText == dom.contentDiv.kind = "text"

\* C35: while the content area shows a status text, neither the trigger
\* button nor the review list is a child of it; a summary area is a child
\* of it only if a render call made after the text was written created it
\* anew; and when the page has no summary area, the next render call
\* creates one, hidden, as the only child of the content area.
C35_TextReplacesContentArea ==
    ShowsText =>
        /\ \A k \in DOMAIN dom.contentDiv.kids : dom.contentDiv.kids[k] = "summaryOutput"
        /\ Len(dom.contentDiv.kids) <= 1
        /\ (dom.summaryOutput.home = "content") = (dom.contentDiv.kids = <<"summaryOutput">>)
        /\ dom.summaryOutput.home = "content" =>
              \E a \in Activations :
                  /\ a.calls # <<>>
                  /\ dom.summaryOutput.text = ParsedDeltas(a)
        /\ dom.summaryOutput.home = "none" =>
              /\ EnsureSummaryOutput(dom).summaryOutput =
                     [home |-> "content", display |-> "none", text |-> <<>>]
              /\ EnsureSummaryOutput(dom).contentDiv.kids = <<"summaryOutput">>

\* 'Summarization started...' has replaced the list, the button and the
\* summary area that the click had created inside the content area.
C35_Witness ==
    /\ Len(inflight) = 1
    /\ inflight[1].pc = "awaitFetch"
    /\ allReviews.items # <<>>
    /\ dom.contentDiv = [kind |-> "text", value |-> <<"Summarization started...">>,
                         kids |-> <<>>]
    /\ dom.summaryOutput.home = "none"


\* The characters of 'https://www.amazon.com/product-reviews/'.
ReviewsAddress ==
    <<"h", "t", "t", "p", "s", ":", "/", "/", "w", "w", "w", ".", "a", "m", "a", "z",
      "o", "n", ".", "c", "o", "m", "/", "p", "r", "o", "d", "u", "c", "t", "-", "r",
      "e", "v", "i", "e", "w", "s", "/">>

\* C36: on a product page the link shown is the review address followed by
\* the identifier, and getPageInfo classifies that URL as a review page
\* with the same identifier; and whenever the tab's URL is the review
\* address followed by a ten-character identifier, getPageInfo has
\* returned 'review' with that identifier.
C36_ReviewLinkClassifiesBack ==
    /\ (Classified /\ pageInfo.type = "product") =>
          LET asin == pageInfo.asin.s
              link == ReviewsAddress \o asin
          IN  /\ IsIdentifier(pageInfo.asin)
              /\ dom.contentDiv.kind = "html"
              /\ dom.contentDiv.value =
                     <<"You are on a product page. <a href=\"">> \o link
                     \o <<"\" target=\"_blank\">Go to the Reviews Page</a> to summarize.">>
              /\ GetPageInfo(link) = PageInfo("review", JsStr(asin))
    /\ (Classified /\ Len(TabUrl) = Len(ReviewsAddress) + 10
                   /\ SubSeq(TabUrl, 1, Len(ReviewsAddress)) = ReviewsAddress
                   /\ IsIdentifier(JsStr(SubSeq(TabUrl, Len(ReviewsAddress) + 1, Len(TabUrl))))) =>
          pageInfo = PageInfo("review", JsStr(SubSeq(TabUrl, Len(ReviewsAddress) + 1, Len(TabUrl))))

\* A product page whose identifier is the one after the last '/dp/' of
\* its URL.
C36_Witness ==
    /\ Classified
    /\ pageInfo = PageInfo("product", JsStr(<<"B", "0", "0", "0", "0", "0", "0", "0", "0", "2">>))
    /\ dom.contentDiv.kind = "html"
    /\ GetPageInfo(ReviewsAddress \o pageInfo.asin.s) = PageInfo("review", pageInfo.asin)


\* The keys the form may hand to the store: the inputs that hold more than
\* whitespace, without the whitespace at their ends.
SavableKeys == {Stripped(input) : input \in {i \in SaveInputs : HasText(i)}}

\* C37: the key the save handler hands to the store is a non-empty input
\* without the whitespace at its ends, and an input of whitespace only
\* raises the alert and starts no write; the store changes only when a
\* pending write succeeds, to that key, and then the form is removed and
\* the status is 'OpenAI API key saved successfully.'; when a write fails
\* the store is as before, the form is there and the status is 'Error
\* saving API key.'.
C37_FormSavesTrimmedKeyOnly ==
    [][ LET saving == apiKeyUi.saving
            saving2 == apiKeyUi'.saving
        IN  /\ Len(saving2) > Len(saving) =>
                  /\ saving2 = Append(saving, saving2[Len(saving2)])
                  /\ saving2[Len(saving2)] \in SavableKeys
                  /\ saving2[Len(saving2)] # <<>>
                  /\ storage' = storage
            /\ (apiKeyUi'.alerted /\ ~apiKeyUi.alerted) =>
                  /\ storage' = storage
                  /\ saving2 = saving
                  /\ apiKeyUi'.form
            /\ storage' # storage =>
                  /\ saving # <<>>
                  /\ storage' = [t |-> "str", s |-> saving[1]]
            /\ Len(saving2) < Len(saving) =>
                  \/ /\ storage' = [t |-> "str", s |-> saving[1]]
                     /\ ~apiKeyUi'.form
                     /\ apiKeyUi'.status = <<"OpenAI API key saved successfully.">>
                  \/ /\ storage' = storage
                     /\ apiKeyUi'.form
                     /\ apiKeyUi'.status = <<"Error saving API key.">>
      ]_vars


\* The store holds a non-empty key.
HoldsKey(stored) == stored.t = "str" /\ stored.s # <<>>

\* C38: no form is shown before the status check has read the store, and
\* in a page without the element that holds the key section the store is
\* not read and neither status nor form is shown; when
\* the read settles, the form is shown exactly if the read succeeded and
\* found no key, with the status 'No OpenAI API key found. ...'; a key
\* found gives the status 'OpenAI API key detected.' and no form; a
\* failed read gives 'Error checking API key status.' and no form.
C38_FormIffNoKeyFound ==
    [][ /\ apiKeyUi.pc # "done" => ~apiKeyUi.form
        /\ ~apiKeyUi.home =>
              /\ apiKeyUi.read = "none"
              /\ ~apiKeyUi.form
              /\ apiKeyUi.status = <<>>
        /\ (apiKeyUi.pc = "awaitStatus" /\ apiKeyUi'.pc = "done") =>
              /\ apiKeyUi'.form = (apiKeyUi'.read = "ok" /\ ~HoldsKey(storage))
              /\ (apiKeyUi'.read = "ok" /\ ~HoldsKey(storage)) =>
                    apiKeyUi'.status =
                        <<"No OpenAI API key found. Please enter your API key below.">>
              /\ (apiKeyUi'.read = "ok" /\ HoldsKey(storage)) =>
                    apiKeyUi'.status = <<"OpenAI API key detected.">>
              /\ apiKeyUi'.read = "failed" =>
                    apiKeyUi'.status = <<"Error checking API key status.">>
              /\ apiKeyUi'.read \in {"ok", "failed"}
      ]_vars

\* The read failed although no key is stored: an error status and no form.
C38_Witness ==
    /\ apiKeyUi.pc = "done"
    /\ apiKeyUi.read = "failed"
    /\ ~HoldsKey(storage)
    /\ ~apiKeyUi.form
    /\ apiKeyUi.status = <<"Error checking API key status.">>


\* The string part occurs in the text.
Occurs(part, text) ==
    \E p \in 1..(Len(text) - Len(part) + 1) : SubSeq(text, p, p + Len(part) - 1) = part

\* C39: the key a session read from the store is in the Authorization
\* header of its request and nowhere else: not in what getApiKey wrote to
\* the console, not in the content area, the summary area or the key
\* status, and not in the body of the request.
C39_KeyOnlyInAuthorizationHeader ==
    \A a \in Activations :
        (a.keyRead = "read" /\ HoldsKey(a.apiKey)) =>
            /\ a.request.sent => a.request.authorization = <<"Bearer ">> \o a.apiKey.s
            /\ \A k \in 1..Len(a.keyLog) : a.keyLog[k] # a.apiKey
            /\ ~Occurs(a.apiKey.s, dom.contentDiv.value)
            /\ ~Occurs(a.apiKey.s, dom.summaryOutput.text)
            /\ ~Occurs(a.apiKey.s, apiKeyUi.status)
            /\ ~Occurs(a.apiKey.s, a.request.user)

\* C40: the loading indicator is shown while the popup waits for the tab query
\* or for the page's reviews, with the content area still untouched, and it is
\* hidden once initialization has ended, whatever the outcome was and
\* whatever ran afterwards (clicks, credential reads, the key section).
C40_LoadingOnlyDuringInitialization ==
    /\ openPc \in {"awaitTab", "awaitReviews"} =>
           loading = "block" /\ dom = EmptyDom("none")
    /\ openPc = "done" => loading = "none"

\* Initialization ended with a list of reviews, and a click ran after it.
C40_Witness ==
    /\ openPc = "done"
    /\ loading = "none"
    /\ extraction.hasReviews
    /\ nClicks > 0

====
